---- MODULE Spec2Model ----
(***************************************************************************)
(* Token-bucket admission control (backend/middleware/rate_limiter.py,     *)
(* backend/cache/redis_client.py) and the authenticated WebSocket          *)
(* connection registry (backend/websocket/auth.py,                         *)
(* backend/websocket/connection_manager.py) of chat-studio.                *)
(*                                                                         *)
(* Time is counted in whole seconds.  Token amounts are floats in the      *)
(* code; here they are exact fixed-point numbers counted in units of       *)
(* 1/TokScale token, so that the default refill rates (20/60, 100/60,      *)
(* 500/60 and 60/60 tokens per second) are the whole numbers 1, 5, 25 and  *)
(* 3 units per second.  A bucket record keeps capacity in whole tokens     *)
(* (the code's int) and refill_rate in units per second.                   *)
(***************************************************************************)
EXTENDS Integers, Sequences, FiniteSets, TLC

\* ------------------------------------------------------------------ bounds
MaxTicks == 4
MaxCalls == 5
MaxCost == 2
MaxLimiterTicks == 1
MaxAdmin == 2
MaxRequests == 2
MaxRaceCalls == 5
MaxRaceTicks == 1
MaxChannels == 3
MaxBroadcasts == 1
MaxCleanups == 1
MaxWsTicks == 1
MaxPeerStuck == 1
MaxPeerDowns == 1
MaxTokenTicks == 4

\* ------------------------------------------------------- program constants
TokScale == 3
KEY_TTL == 3600
DefaultMaxConnections == 5
JWT_EXPIRATION_HOURS == 24
REFRESH_TOKEN_DAYS == 7
STALE_MINUTES == 30

VARIABLES
    now,            \* the wall clock, time.time(), in seconds
    ticks,          \* how many times the clock has advanced
    redis_ok,       \* RedisClient.sync_client is connected
    store,          \* the Redis hashes: bucket key -> entry
    bucket,         \* the TokenBucket under test (SpecBucket)
    calls,          \* identifier -> consume calls made on it (SpecBucket)
    run,            \* identifier -> unit-cost consumes since it was fresh, -1 once broken
    tier_buckets,   \* RateLimiter.tier_buckets: tier name -> TokenBucket
    used,           \* how many requests and administrative calls were made (Spec)
    procs,          \* worker process -> where its consume call stands (SpecRace)
    admitted,       \* how many consume calls returned allowed (SpecRace)
    max_connections_per_user,   \* ConnectionManager.max_connections_per_user
    next_id,        \* how many websockets have asked to connect
    connections,    \* ConnectionManager.connections: session id -> websocket
    user_sessions,  \* ConnectionManager.user_sessions: user id -> list of session ids
    session_user_map,   \* ConnectionManager.session_user_map: session id -> user id
    active_sessions,    \* ws_auth.active_sessions: session id -> session
    connection_count,   \* ws_auth.connection_count: user id -> count
    channels,       \* websocket -> its peer, its close codes, what was sent on it
    tasks,          \* the send_to_session coroutines that have not finished
    call,           \* the latest send_typing_indicator call
    active_connections, \* main.py's manager.active_connections: user id -> websocket
    endpoints,      \* websocket -> the websocket_endpoint coroutine serving it
    utc_offset,     \* the host's timezone: local time minus UTC, in hours
    issued,         \* the token the client holds (SpecToken)
    last            \* the latest operation, its inputs and its result

bucketVars == <<bucket, calls, run>>

limiterVars == <<tier_buckets, used>>

raceVars == <<procs, admitted>>

registryVars == <<connections, user_sessions, session_user_map>>

authVars == <<active_sessions, connection_count>>

endpointVars == <<active_connections, endpoints>>

wsVars == <<max_connections_per_user, next_id, registryVars, authVars, channels, tasks, call,
           endpointVars>>

tokenVars == <<utc_offset, issued>>

vars == <<now, ticks, redis_ok, store, bucketVars, limiterVars, raceVars, wsVars,
          tokenVars, last>>

\* ------------------------------------------------------------- identities
UserIds == {"alice", "bob"}
ClientIps == {"10.0.0.1"}

\* hashlib.sha256(ip).hexdigest()[:16]: a digest, never the address itself
sha256_16(ip) == "#" \o ip

UserIdentifier(user_id) == "user:" \o user_id
IpHashIdentifier(ip) == "ip:" \o sha256_16(ip)
RawIpIdentifier(ip) == "ip:" \o ip

Identifiers ==
    {UserIdentifier(u) : u \in UserIds}
        \cup {IpHashIdentifier(ip) : ip \in ClientIps}
        \cup {RawIpIdentifier(ip) : ip \in ClientIps}

_get_bucket_key(identifier) == "rate_limit:bucket:" \o identifier

BucketKeys == {_get_bucket_key(i) : i \in Identifiers}

\* ------------------------------------------------------------ arithmetic
Min(a, b) == IF a <= b THEN a ELSE b

Max(a, b) == IF a >= b THEN a ELSE b

\* Python's int(n / d) for d > 0: truncation toward zero
IntTrunc(n, d) == IF n >= 0 THEN n \div d ELSE -((-n) \div d)

\* --------------------------------------------------------- the Redis store
\* A hash with its fields and its time to live.  expire_at = -1: no TTL set.
NoTTL == 0 - 1

EmptyEntry == [present |-> {}, tokens |-> 0, last_refill |-> 0, expire_at |-> NoTTL]

\* Redis drops a key once its TTL has run out.
Live(s, key, t) ==
    IF s[key].expire_at # NoTTL /\ t >= s[key].expire_at THEN EmptyEntry ELSE s[key]

\* RedisClient.hgetall: {} when the client raises
hgetall(s, ok, key, t) == IF ok THEN Live(s, key, t) ELSE EmptyEntry

\* RedisClient.hset: the failure is logged and swallowed
hset(s, ok, key, field, value, t) ==
    IF ok
    THEN [s EXCEPT ![key] =
            [Live(s, key, t) EXCEPT !.present = @ \cup {field}, ![field] = value]]
    ELSE s

\* RedisClient.expire: no effect on a key that does not exist
expire(s, ok, key, seconds, t) ==
    IF ok
    THEN [s EXCEPT ![key] =
            IF Live(s, key, t).present = {}
            THEN EmptyEntry
            ELSE [Live(s, key, t) EXCEPT !.expire_at = t + seconds]]
    ELSE s

\* ------------------------------------------------------------ TokenBucket
Units(tokens) == tokens * TokScale

\* TokenBucket._get_bucket_state: (tokens, last_refill) and the store after it
_get_bucket_state(b, s, ok, identifier, t) ==
    IF ~b.redis
    THEN [tokens |-> Units(b.capacity), last_refill |-> t, found |-> FALSE, store |-> s]
    ELSE LET key == _get_bucket_key(identifier)
             data == hgetall(s, ok, key, t)
         IN  IF data.present = {}
             THEN [tokens |-> Units(b.capacity),
                   last_refill |-> t,
                   found |-> FALSE,
                   store |-> expire(hset(hset(s, ok, key, "tokens", Units(b.capacity), t),
                                         ok, key, "last_refill", t, t),
                                    ok, key, KEY_TTL, t)]
             ELSE [tokens |-> IF "tokens" \in data.present
                              THEN data.tokens ELSE Units(b.capacity),
                   last_refill |-> IF "last_refill" \in data.present
                                   THEN data.last_refill ELSE t,
                   found |-> TRUE,
                   store |-> s]

\* A plausible slip: the new level is written without the time of the refill.
_set_bucket_state_tokens_only(b, s, ok, identifier, tokens, last_refill, t) ==
    IF ~b.redis
    THEN s
    ELSE LET key == _get_bucket_key(identifier)
         IN  expire(hset(s, ok, key, "tokens", tokens, t), ok, key, KEY_TTL, t)

\* TokenBucket._set_bucket_state
_set_bucket_state(b, s, ok, identifier, tokens, last_refill, t) ==
    IF ~b.redis
    THEN s
    ELSE LET key == _get_bucket_key(identifier)
         IN  expire(hset(hset(s, ok, key, "tokens", tokens, t),
                         ok, key, "last_refill", last_refill, t),
                    ok, key, KEY_TTL, t)

\* A plausible slip: the refill without the cap at capacity.
refill_unclamped(b, tokens, last_refill, t) == tokens + (t - last_refill) * b.refill_rate

\* A plausible slip: the elapsed time is left out of the refill.
refill_no_elapsed(b, tokens, last_refill, t) == Min(Units(b.capacity), tokens)

\* consume, lines 138-140: the level after the refill for the elapsed time
refill(b, tokens, last_refill, t) ==
    Min(Units(b.capacity), tokens + (t - last_refill) * b.refill_rate)

\* TokenBucket.consume.  error: the call raised ZeroDivisionError (a division by
\* refill_rate = 0), on the admitted path after the state was written.
consume(b, s, ok, identifier, cost, t) ==
    LET got == _get_bucket_state(b, s, ok, identifier, t)
        level == refill(b, got.tokens, got.last_refill, t)
    IN  IF level >= Units(cost)
        THEN [allowed |-> TRUE,
              error |-> (b.refill_rate = 0),
              found |-> got.found, read_tokens |-> got.tokens, read_last |-> got.last_refill,
              level |-> level,
              remaining |-> IntTrunc(level - Units(cost), TokScale),
              retry_after |-> 0,
              store |-> _set_bucket_state(b, got.store, ok, identifier,
                                          level - Units(cost), t, t)]
        ELSE [allowed |-> FALSE,
              error |-> (b.refill_rate = 0),
              found |-> got.found, read_tokens |-> got.tokens, read_last |-> got.last_refill,
              level |-> level,
              remaining |-> 0,
              retry_after |-> IF b.refill_rate = 0 THEN 0
                              ELSE IntTrunc(Units(cost) - level, b.refill_rate),
              store |-> got.store]

\* --------------------------------------------------- the clock and Redis
TickSteps == {1, KEY_TTL}

Tick(d) ==
    /\ ticks < MaxTicks
    /\ now' = now + d
    /\ ticks' = ticks + 1
    /\ last' = [op |-> "tick"]
    /\ UNCHANGED <<wsVars, tokenVars, redis_ok, store, bucketVars, limiterVars, raceVars>>

\* RedisClient.initialize_sync
initialize_sync ==
    /\ ~redis_ok
    /\ redis_ok' = TRUE
    /\ last' = [op |-> "initialize_sync"]
    /\ UNCHANGED <<wsVars, tokenVars, now, ticks, store, bucketVars, limiterVars, raceVars>>

\* ------------------------------ concurrent consume calls (SpecRace)
\* The worker processes that share the Redis store.
Procs == {"w1", "w2"}

IdleProc == [pc |-> "idle", current_time |-> 0, tokens |-> 0, last_refill |-> 0]

RaceIdle ==
    /\ procs = [p \in Procs |-> IdleProc]
    /\ admitted = 0

\* ------------------------------------- the websocket side, before any call
EmptyMap == [x \in {} |-> 0]

\* No token: the client presents nothing
NoToken == [signed |-> FALSE, user_id |-> "", type |-> "", exp |-> 0]

NoCall == [n |-> 0, user_id |-> "", at_call |-> EmptyMap, exclude |-> <<>>, failed |-> {},
           index |-> 0, iterating |-> FALSE]

\* ConnectionManager.__init__ and WebSocketAuth.__init__
WsIdle(limit) ==
    /\ max_connections_per_user = limit
    /\ next_id = 0
    /\ connections = EmptyMap
    /\ user_sessions = EmptyMap
    /\ session_user_map = EmptyMap
    /\ active_sessions = EmptyMap
    /\ connection_count = EmptyMap
    /\ channels = EmptyMap
    /\ tasks = {}
    /\ call = NoCall
    /\ active_connections = EmptyMap
    /\ endpoints = EmptyMap
    /\ utc_offset = 0
    /\ issued = NoToken

\* --------------------------------------------- one TokenBucket (SpecBucket)
Capacities == {3, 10}
RefillRates == {0, 1, 3, 5}

Consume(identifier, cost) ==
    /\ calls[identifier] < MaxCalls
    /\ LET r == consume(bucket, store, redis_ok, identifier, cost, now)
           nth == IF cost # 1 THEN 0 - 1
                  ELSE IF ~r.found THEN 1
                  ELSE IF run[identifier] < 0 THEN 0 - 1
                  ELSE run[identifier] + 1
       IN  /\ store' = r.store
           /\ calls' = [calls EXCEPT ![identifier] = @ + 1]
           /\ run' = [run EXCEPT ![identifier] = nth]
           /\ last' = [op |-> "consume", id |-> identifier, cost |-> cost, t |-> now,
                       found |-> r.found, k |-> r.read_tokens, t0 |-> r.read_last,
                       level |-> r.level, allowed |-> r.allowed, error |-> r.error,
                       remaining |-> r.remaining, retry_after |-> r.retry_after,
                       nth |-> nth, before |-> store]
           /\ admitted' = IF r.allowed THEN admitted + 1 ELSE admitted
    /\ UNCHANGED <<wsVars, tokenVars, now, ticks, redis_ok, bucket, limiterVars, procs>>

default_limits ==
    [free |-> [capacity |-> 20, refill_rate |-> 1, redis |-> TRUE],
     pro |-> [capacity |-> 100, refill_rate |-> 5, redis |-> TRUE],
     enterprise |-> [capacity |-> 500, refill_rate |-> 25, redis |-> TRUE]]

InitBucket ==
    /\ tier_buckets = default_limits
    /\ used = [requests |-> 0, admin |-> 0]
    /\ now = 0
    /\ ticks = 0
    /\ redis_ok = FALSE
    /\ store = [k \in BucketKeys |-> EmptyEntry]
    /\ bucket \in [capacity : Capacities, refill_rate : RefillRates, redis : BOOLEAN]
    /\ calls = [i \in Identifiers |-> 0]
    /\ run = [i \in Identifiers |-> 0]
    /\ RaceIdle
    /\ WsIdle(DefaultMaxConnections)
    /\ last = [op |-> "init"]

NextBucket ==
    \/ initialize_sync
    \/ \E d \in TickSteps : Tick(d)
    \/ \E cost \in 1..MaxCost : Consume(UserIdentifier("alice"), cost)

SpecBucket == InitBucket /\ [][NextBucket]_vars

\* C1: for every sequence of consume calls on one identifier of one TokenBucket,
\* the tokens value stored for the identifier is at most the bucket's capacity
\* and is never negative.
C1_CapacityInvariant ==
    \A i \in Identifiers :
        "tokens" \in store[_get_bucket_key(i)].present
            => /\ store[_get_bucket_key(i)].tokens <= Units(bucket.capacity)
               /\ store[_get_bucket_key(i)].tokens >= 0

\* An admitted consume whose refill had to be cut back to the capacity.
C1_Witness ==
    /\ last.op = "consume"
    /\ last.allowed
    /\ last.found
    /\ last.k + (last.t - last.t0) * bucket.refill_rate > Units(bucket.capacity)
    /\ store[_get_bucket_key(last.id)].tokens = Units(bucket.capacity) - Units(last.cost)

\* The least whole number of seconds q with q * d >= n
Ceiling(n, d) == IF n <= 0 THEN 0 ELSE (n + d - 1) \div d

\* C27: a rejected consume reports retry_after = the ceiling of
\* (cost - level) / refill_rate, level being the refilled level, so that a consume
\* of the same cost on the same identifier retry_after seconds later, nothing
\* consumed in between, is admitted.
C27_RetryAfterIsCeiling ==
    (last.op = "consume" /\ ~last.allowed /\ ~last.error)
    => /\ last.retry_after = Ceiling(Units(last.cost) - last.level, bucket.refill_rate)
       /\ consume(bucket, store, redis_ok, last.id, last.cost,
                  last.t + last.retry_after).allowed

\* C28: for an identifier the store already holds, an admitted consume stores
\* exactly (min(capacity, tokens + elapsed * refill_rate) - cost, now) and reports
\* remaining = the floor of the stored tokens; a rejected consume writes nothing,
\* the store is after it what it was before.
C28_ConsumeFrame ==
    (last.op = "consume" /\ last.found)
    => LET entry == store[_get_bucket_key(last.id)]
           level == Min(Units(bucket.capacity),
                        last.k + (last.t - last.t0) * bucket.refill_rate)
       IN  IF last.allowed
           THEN /\ entry.present = {"tokens", "last_refill"}
                /\ entry.tokens = level - Units(last.cost)
                /\ entry.last_refill = last.t
                /\ ~last.error => last.remaining = entry.tokens \div TokScale
                /\ \A k \in BucketKeys \ {_get_bucket_key(last.id)} :
                        store[k] = last.before[k]
           ELSE store = last.before

\* A rejected consume on a stored identifier, after time for a refill that was
\* not enough: the level it computed is not written back.
C28_Witness ==
    /\ last.op = "consume"
    /\ last.found
    /\ ~last.allowed
    /\ ~last.error
    /\ last.t > last.t0
    /\ last.level > last.k
    /\ store = last.before
    /\ store[_get_bucket_key(last.id)].tokens = last.k
    /\ store[_get_bucket_key(last.id)].last_refill = last.t0

\* Unit-cost consume calls only, one at a time, on one identifier of one bucket
NextAdmission ==
    \/ initialize_sync
    \/ \E d \in TickSteps : Tick(d)
    \/ Consume(UserIdentifier("alice"), 1)

SpecAdmission == InitBucket /\ [][NextAdmission]_vars

\* C31: for one identifier of one bucket that starts full, over any sequence of
\* unit-cost consume calls made one at a time within a time span T, at most
\* capacity + refill_rate * T calls are admitted, and a call is rejected only
\* when the refilled level is below its cost.
C31_SequentialAdmissionBound ==
    /\ admitted * TokScale <= Units(bucket.capacity) + bucket.refill_rate * now
    /\ (last.op = "consume" /\ ~last.allowed) => last.level < Units(last.cost)

\* C8: with refill rate 0 and capacity N, the first N unit-cost consume calls on
\* a fresh identifier each return allowed, the next returns not allowed, and none
\* of these calls ends in an error instead of a decision.
C8_NoRefillAdmission ==
    (/\ last.op = "consume"
     /\ bucket.refill_rate = 0
     /\ bucket.redis
     /\ redis_ok
     /\ last.nth >= 1
     /\ last.nth <= bucket.capacity + 1)
        => /\ ~last.error
           /\ last.allowed = (last.nth <= bucket.capacity)


\* ------------------------------------------------ SpecRace: the actions
\* One unit-cost consume call per worker at a time, on one identifier, taken
\* one Redis command at a time: the commands of two workers interleave.
RaceIdentifier == UserIdentifier("alice")

RaceKey == _get_bucket_key(RaceIdentifier)

\* consume, line 134, and the hgetall of _get_bucket_state
RaceRead(p) ==
    /\ procs[p].pc = "idle"
    /\ calls[RaceIdentifier] < MaxRaceCalls
    /\ calls' = [calls EXCEPT ![RaceIdentifier] = @ + 1]
    /\ LET data == hgetall(store, redis_ok, RaceKey, now)
       IN  procs' = [procs EXCEPT ![p] =
                IF data.present = {}
                THEN [pc |-> "init_tokens", current_time |-> now,
                      tokens |-> Units(bucket.capacity), last_refill |-> now]
                ELSE [pc |-> "decide", current_time |-> now,
                      tokens |-> IF "tokens" \in data.present
                                 THEN data.tokens ELSE Units(bucket.capacity),
                      last_refill |-> IF "last_refill" \in data.present
                                      THEN data.last_refill ELSE now]]
    /\ UNCHANGED <<wsVars, tokenVars, now, ticks, redis_ok, store, bucket, run, limiterVars, admitted, last>>

\* _get_bucket_state, lines 87-89: the three commands that create the entry
RaceInitWrite(p) ==
    /\ procs[p].pc \in {"init_tokens", "init_last", "init_expire"}
    /\ store' = CASE procs[p].pc = "init_tokens" ->
                        hset(store, redis_ok, RaceKey, "tokens", procs[p].tokens, now)
                   [] procs[p].pc = "init_last" ->
                        hset(store, redis_ok, RaceKey, "last_refill", procs[p].last_refill, now)
                   [] procs[p].pc = "init_expire" ->
                        expire(store, redis_ok, RaceKey, KEY_TTL, now)
    /\ procs' = [procs EXCEPT ![p].pc =
                    CASE @ = "init_tokens" -> "init_last"
                      [] @ = "init_last" -> "init_expire"
                      [] @ = "init_expire" -> "decide"]
    /\ UNCHANGED <<wsVars, tokenVars, now, ticks, redis_ok, bucketVars, limiterVars, admitted, last>>

\* consume, lines 138-146 and 154-164: the refill, the decision and, when the
\* call is admitted, the first command of _set_bucket_state
RaceDecide(p) ==
    /\ procs[p].pc = "decide"
    /\ LET level == refill(bucket, procs[p].tokens, procs[p].last_refill,
                           procs[p].current_time)
       IN  IF level >= Units(1)
           THEN /\ store' = hset(store, redis_ok, RaceKey, "tokens", level - Units(1), now)
                /\ procs' = [procs EXCEPT ![p].pc = "set_last"]
           ELSE /\ store' = store
                /\ procs' = [procs EXCEPT ![p] = IdleProc]
    /\ UNCHANGED <<wsVars, tokenVars, now, ticks, redis_ok, bucketVars, limiterVars, admitted, last>>

\* _set_bucket_state, lines 116-117, and the return of consume, line 148
RaceStateWrite(p) ==
    /\ procs[p].pc \in {"set_last", "set_expire"}
    /\ IF procs[p].pc = "set_last"
       THEN /\ store' = hset(store, redis_ok, RaceKey, "last_refill",
                             procs[p].current_time, now)
            /\ procs' = [procs EXCEPT ![p].pc = "set_expire"]
            /\ admitted' = admitted
       ELSE /\ store' = expire(store, redis_ok, RaceKey, KEY_TTL, now)
            /\ procs' = [procs EXCEPT ![p] = IdleProc]
            /\ admitted' = admitted + 1
    /\ UNCHANGED <<wsVars, tokenVars, now, ticks, redis_ok, bucketVars, limiterVars, last>>

RaceTick == ticks < MaxRaceTicks /\ Tick(1)

RaceRates == {1, 3}

InitRace ==
    /\ tier_buckets = default_limits
    /\ used = [requests |-> 0, admin |-> 0]
    /\ now = 0
    /\ ticks = 0
    /\ redis_ok = TRUE
    /\ store = [k \in BucketKeys |-> EmptyEntry]
    /\ bucket \in [capacity : Capacities, refill_rate : RaceRates, redis : {TRUE}]
    /\ calls = [i \in Identifiers |-> 0]
    /\ run = [i \in Identifiers |-> 0]
    /\ RaceIdle
    /\ WsIdle(DefaultMaxConnections)
    /\ last = [op |-> "init"]

NextRace ==
    \/ RaceTick
    \/ \E p \in Procs : RaceRead(p)
    \/ \E p \in Procs : RaceInitWrite(p)
    \/ \E p \in Procs : RaceDecide(p)
    \/ \E p \in Procs : RaceStateWrite(p)

SpecRace == InitRace /\ [][NextRace]_vars

\* C2: under every interleaving of concurrent unit-cost consume calls on one
\* bucket key, no token is spent twice: the calls admitted so far never number
\* more than the tokens a fresh bucket held plus those refilled since, which is
\* the most any sequential order of the same calls admits.
C2_NoDoubleSpend ==
    admitted * TokScale <= Units(bucket.capacity) + now * bucket.refill_rate

\* ------------------------------------------------- RateLimiter (Spec)
TierOrder == <<"free", "pro", "enterprise">>

TierNames == {TierOrder[i] : i \in 1..Len(TierOrder)}

\* RateLimiter.__init__: the IP bucket, 60 tokens, 60/60 per second
ip_limit == [capacity |-> 60, refill_rate |-> 3, redis |-> TRUE]

\* A request: request.state.user_id ("" when not set), request.client.host and
\* request.state.subscription_tier ("" when not set).
Requests ==
    {[user_id |-> "alice", ip |-> "10.0.0.1", tier |-> t] : t \in {"", "pro", "gold"}}
        \cup {[user_id |-> "", ip |-> "10.0.0.1", tier |-> ""]}

\* RateLimiter.get_client_identifier
get_client_identifier(req) ==
    IF req.user_id # "" THEN UserIdentifier(req.user_id) ELSE IpHashIdentifier(req.ip)

\* RateLimiter.get_user_tier
get_user_tier(tb, req) ==
    IF req.tier # "" /\ req.tier \in DOMAIN tb THEN req.tier ELSE "free"

\* A plausible slip: the identity's tier bucket is consulted without the IP bucket
\* having the last word.
check_rate_limit_no_ip(tb, s, ok, req, t) ==
    LET identifier == get_client_identifier(req)
        tier == get_user_tier(tb, req)
        r1 == consume(ip_limit, s, ok, RawIpIdentifier(req.ip), 1, t)
        r2 == consume(tb[tier], r1.store, ok, identifier, 1, t)
    IN  [outcome |-> IF r2.error THEN "error"
                     ELSE IF r2.allowed THEN "allowed" ELSE "tier_rejected",
         identifier |-> identifier, tier |-> tier,
         ip |-> [r1 EXCEPT !.store = 0], info |-> [r2 EXCEPT !.store = 0],
         retry_after |-> r2.retry_after,
         store |-> r2.store]

\* A plausible slip: a request the tier bucket rejects gets its IP token back.
check_rate_limit_refunds(tb, s, ok, req, t) ==
    LET identifier == get_client_identifier(req)
        tier == get_user_tier(tb, req)
        r1 == consume(ip_limit, s, ok, RawIpIdentifier(req.ip), 1, t)
        r2 == consume(tb[tier], r1.store, ok, identifier, 1, t)
        none == [allowed |-> FALSE, error |-> FALSE, found |-> FALSE, read_tokens |-> 0,
                 read_last |-> 0, level |-> 0, remaining |-> 0, retry_after |-> 0,
                 store |-> 0]
    IN  IF r1.error \/ ~r1.allowed
        THEN [outcome |-> IF r1.error THEN "error" ELSE "ip_rejected",
              identifier |-> identifier, tier |-> tier,
              ip |-> [r1 EXCEPT !.store = 0], info |-> none,
              retry_after |-> IF r1.error THEN 0 ELSE r1.retry_after,
              store |-> r1.store]
        ELSE [outcome |-> IF r2.error THEN "error"
                          ELSE IF r2.allowed THEN "allowed" ELSE "tier_rejected",
              identifier |-> identifier, tier |-> tier,
              ip |-> [r1 EXCEPT !.store = 0], info |-> [r2 EXCEPT !.store = 0],
              retry_after |-> r2.retry_after,
              store |-> IF ~r2.error /\ ~r2.allowed THEN s ELSE r2.store]

\* RateLimiter.check_rate_limit.  outcome: "allowed" (info returned),
\* "ip_rejected" / "tier_rejected" (RateLimitExceeded raised), "error" (another
\* exception left the call).
check_rate_limit(tb, s, ok, req, t) ==
    LET identifier == get_client_identifier(req)
        tier == get_user_tier(tb, req)
        r1 == consume(ip_limit, s, ok, RawIpIdentifier(req.ip), 1, t)
        r2 == consume(tb[tier], r1.store, ok, identifier, 1, t)
        none == [allowed |-> FALSE, error |-> FALSE, found |-> FALSE, read_tokens |-> 0,
                 read_last |-> 0, level |-> 0, remaining |-> 0, retry_after |-> 0,
                 store |-> 0]
    IN  IF r1.error
        THEN [outcome |-> "error", identifier |-> identifier, tier |-> tier,
              ip |-> [r1 EXCEPT !.store = 0], info |-> none,
              retry_after |-> 0, store |-> r1.store]
        ELSE IF ~r1.allowed
        THEN [outcome |-> "ip_rejected", identifier |-> identifier, tier |-> tier,
              ip |-> [r1 EXCEPT !.store = 0], info |-> none,
              retry_after |-> r1.retry_after, store |-> r1.store]
        ELSE [outcome |-> IF r2.error THEN "error"
                          ELSE IF r2.allowed THEN "allowed" ELSE "tier_rejected",
              identifier |-> identifier, tier |-> tier,
              ip |-> [r1 EXCEPT !.store = 0], info |-> [r2 EXCEPT !.store = 0],
              retry_after |-> r2.retry_after,
              store |-> r2.store]

\* RateLimiter.get_user_limits, the loop from the i-th tier on.  The result holds
\* one report per tier in the order of tier_buckets; error: the call raised
\* (ZeroDivisionError for a tier whose refill_rate is 0) and reported nothing.
RECURSIVE user_limits_from(_, _, _, _, _, _)
user_limits_from(tb, s, ok, identifier, t, i) ==
    IF i > Len(TierOrder)
    THEN [error |-> FALSE, status |-> <<>>, store |-> s]
    ELSE LET b == tb[TierOrder[i]]
             got == _get_bucket_state(b, s, ok, identifier, t)
             level == refill(b, got.tokens, got.last_refill, t)
             rest == user_limits_from(tb, got.store, ok, identifier, t, i + 1)
         IN  IF b.refill_rate = 0
             THEN [error |-> TRUE, status |-> <<>>, store |-> got.store]
             ELSE [error |-> rest.error,
                   status |-> IF rest.error THEN <<>>
                              ELSE <<[tier |-> TierOrder[i],
                                      capacity |-> b.capacity,
                                      remaining |-> IntTrunc(level, TokScale),
                                      found |-> got.found,
                                      k |-> got.tokens,
                                      t0 |-> got.last_refill]>> \o rest.status,
                   store |-> rest.store]

get_user_limits(tb, s, ok, user_id, t) ==
    user_limits_from(tb, s, ok, UserIdentifier(user_id), t, 1)

\* reset_user_limit, the loop over every tier from the i-th on
RECURSIVE reset_all_from(_, _, _, _, _, _)
reset_all_from(tb, s, ok, identifier, t, i) ==
    IF i > Len(TierOrder)
    THEN s
    ELSE reset_all_from(tb,
                        _set_bucket_state(tb[TierOrder[i]], s, ok, identifier,
                                          Units(tb[TierOrder[i]].capacity), t, t),
                        ok, identifier, t, i + 1)

\* RateLimiter.reset_user_limit; tier = "": no tier given
reset_user_limit(tb, s, ok, user_id, tier, t) ==
    IF tier # "" /\ tier \in DOMAIN tb
    THEN _set_bucket_state(tb[tier], s, ok, UserIdentifier(user_id),
                           Units(tb[tier].capacity), t, t)
    ELSE reset_all_from(tb, s, ok, UserIdentifier(user_id), t, 1)

\* RateLimiter.update_tier_limits
\* A plausible slip: the new capacity is bound, the tier's old rate is kept.
update_tier_limits_keeps_rate(tb, tier, capacity, refill_rate) ==
    [tb EXCEPT ![tier] = [capacity |-> capacity, refill_rate |-> tb[tier].refill_rate,
                          redis |-> TRUE]]

update_tier_limits(tb, tier, capacity, refill_rate) ==
    [tb EXCEPT ![tier] = [capacity |-> capacity, refill_rate |-> refill_rate, redis |-> TRUE]]

\* The remaining tokens get_user_limits reports for each tier, -1 when it raises
Remaining(tb, s, ok, user_id, t) ==
    LET r == get_user_limits(tb, s, ok, user_id, t)
    IN  [tier \in TierNames |->
            IF r.error THEN 0 - 1
            ELSE LET i == CHOOSE j \in 1..Len(r.status) : r.status[j].tier = tier
                 IN  r.status[i].remaining]

\* RateLimitExceeded.__init__: the headers of the exception; a sequence of at
\* most one value stands for the optional Retry-After header
RateLimitExceeded(retry_after) ==
    [status_code |-> 429,
     headers |-> IF retry_after # 0 THEN <<retry_after>> ELSE <<>>]

\* RateLimitMiddleware.dispatch for a path that is not exempt, given the outcome
\* of check_rate_limit; handled: call_next ran the downstream handler
dispatch(r) ==
    IF r.outcome = "allowed"
    THEN [status_code |-> 200, retry_after |-> <<>>, handled |-> TRUE]
    ELSE IF r.outcome \in {"ip_rejected", "tier_rejected"}
    THEN LET e == RateLimitExceeded(r.retry_after)
         IN  [status_code |-> e.status_code, retry_after |-> e.headers, handled |-> FALSE]
    ELSE [status_code |-> 200, retry_after |-> <<>>, handled |-> TRUE]

CheckRateLimit(req) ==
    /\ used.requests < MaxRequests
    /\ used' = [used EXCEPT !.requests = @ + 1]
    /\ LET r == check_rate_limit(tier_buckets, store, redis_ok, req, now)
       IN  /\ store' = r.store
           /\ last' = [op |-> "check_rate_limit", t |-> now, ip_address |-> req.ip,
                       outcome |-> r.outcome, identifier |-> r.identifier, tier |-> r.tier,
                       ip |-> r.ip, info |-> r.info, retry_after |-> r.retry_after,
                       before |-> store[_get_bucket_key(r.identifier)],
                       store_before |-> store,
                       response |-> dispatch(r)]
    /\ UNCHANGED <<wsVars, tokenVars, now, ticks, redis_ok, tier_buckets, bucketVars, raceVars>>

Admin ==
    /\ used.admin < MaxAdmin
    /\ used' = [used EXCEPT !.admin = @ + 1]

GetUserLimits(user_id) ==
    /\ Admin
    /\ LET r == get_user_limits(tier_buckets, store, redis_ok, user_id, now)
       IN  /\ store' = r.store
           /\ last' = [op |-> "get_user_limits", user_id |-> user_id, t |-> now,
                       error |-> r.error, status |-> r.status,
                       before |-> store[_get_bucket_key(UserIdentifier(user_id))]]
    /\ UNCHANGED <<wsVars, tokenVars, now, ticks, redis_ok, tier_buckets, bucketVars, raceVars>>

ResetUserLimit(user_id, tier) ==
    /\ Admin
    /\ store' = reset_user_limit(tier_buckets, store, redis_ok, user_id, tier, now)
    /\ last' = [op |-> "reset_user_limit", user_id |-> user_id, tier |-> tier, t |-> now,
                before |-> Remaining(tier_buckets, store, redis_ok, user_id, now),
                after |-> Remaining(tier_buckets, store', redis_ok, user_id, now),
                next_consume |->
                    [name \in TierNames |->
                        consume(tier_buckets[name], store', redis_ok,
                                UserIdentifier(user_id), 1, now).allowed]]
    /\ UNCHANGED <<wsVars, tokenVars, now, ticks, redis_ok, tier_buckets, bucketVars, raceVars>>

\* The configurations the administrative route is given here: (capacity, rate)
TierUpdates == {<<10, 3>>, <<3, 0>>}

UpdateTierLimits(tier, capacity, refill_rate) ==
    /\ Admin
    /\ tier_buckets' = update_tier_limits(tier_buckets, tier, capacity, refill_rate)
    /\ last' = [op |-> "update_tier_limits", tier |-> tier, capacity |-> capacity,
                refill_rate |-> refill_rate, before |-> tier_buckets,
                store_before |-> store]
    /\ UNCHANGED <<wsVars, tokenVars, now, ticks, redis_ok, store, bucketVars, raceVars>>

\* What Redis holds when the process starts: the entries left by an earlier burst,
\* at time 0 and from address 10.0.0.1, of n requests of user bob on tier pro and
\* m requests of user alice on tier free (each request took one token of the IP
\* bucket and one of the identity's bucket).
Warmups == {<<0, 0>>, <<59, 0>>, <<0, 19>>}

WarmEntry(tokens) ==
    [present |-> {"tokens", "last_refill"}, tokens |-> Units(tokens),
     last_refill |-> 0, expire_at |-> KEY_TTL]

WarmStore(n, m) ==
    [k \in BucketKeys |->
        IF k = _get_bucket_key(RawIpIdentifier("10.0.0.1")) /\ n + m > 0
        THEN WarmEntry(ip_limit.capacity - n - m)
        ELSE IF k = _get_bucket_key(UserIdentifier("bob")) /\ n > 0
        THEN WarmEntry(default_limits.pro.capacity - n)
        ELSE IF k = _get_bucket_key(UserIdentifier("alice")) /\ m > 0
        THEN WarmEntry(default_limits.free.capacity - m)
        ELSE EmptyEntry]

Init ==
    /\ now = 0
    /\ ticks = 0
    /\ redis_ok = FALSE
    /\ \E w \in Warmups : store = WarmStore(w[1], w[2])
    /\ tier_buckets = default_limits
    /\ used = [requests |-> 0, admin |-> 0]
    /\ bucket = ip_limit
    /\ calls = [i \in Identifiers |-> 0]
    /\ run = [i \in Identifiers |-> 0]
    /\ RaceIdle
    /\ WsIdle(DefaultMaxConnections)
    /\ last = [op |-> "init"]

LimiterTick(d) == ticks < MaxLimiterTicks /\ Tick(d)

Next ==
    \/ initialize_sync
    \/ \E d \in TickSteps : LimiterTick(d)
    \/ \E req \in Requests : CheckRateLimit(req)
    \/ GetUserLimits("alice")
    \/ \E tier \in TierNames \cup {""} : ResetUserLimit("alice", tier)
    \/ \E tier \in TierNames, u \in TierUpdates : UpdateTierLimits(tier, u[1], u[2])

Spec == Init /\ [][Next]_vars

\* ------------------------------ the rate_limit decorator (SpecDecorator)
\* The limits the decorator is given here: (capacity, refill rate).  With a
\* rate of 0 `if capacity and refill_rate` is false and no limit is applied.
DecoratorLimits == {<<3, 1>>, <<10, 3>>, <<3, 0>>}

\* The tokens a bucket holds for an identifier at time t: what consume reads
\* and refills before it takes anything.
bucket_level(b, s, ok, identifier, t) ==
    LET got == _get_bucket_state(b, s, ok, identifier, t)
    IN  refill(b, got.tokens, got.last_refill, t)

\* The wrapper of rate_limit(capacity, refill_rate), tier not given: a
\* TokenBucket of its own on rate_limiter.redis, consumed for the client's
\* identifier.  allowed: the decorated function ran; otherwise
\* RateLimitExceeded was raised.
rate_limit(capacity, refill_rate, s, ok, req, t) ==
    LET identifier == get_client_identifier(req)
    IN  IF capacity # 0 /\ refill_rate # 0
        THEN LET b == [capacity |-> capacity, refill_rate |-> refill_rate, redis |-> TRUE]
                 r == consume(b, s, ok, identifier, 1, t)
             IN  [applied |-> TRUE, identifier |-> identifier, allowed |-> r.allowed,
                  level |-> r.level, retry_after |-> r.retry_after, store |-> r.store]
        ELSE [applied |-> FALSE, identifier |-> identifier, allowed |-> TRUE,
              level |-> 0, retry_after |-> 0, store |-> s]

\* A request reaches a decorated endpoint.
RateLimited(req, capacity, refill_rate) ==
    /\ used.requests < MaxRequests
    /\ used' = [used EXCEPT !.requests = @ + 1]
    /\ LET r == rate_limit(capacity, refill_rate, store, redis_ok, req, now)
       IN  /\ store' = r.store
           /\ last' = [op |-> "rate_limit", t |-> now, identifier |-> r.identifier,
                       tier |-> get_user_tier(tier_buckets, req),
                       capacity |-> capacity, refill_rate |-> refill_rate,
                       applied |-> r.applied, allowed |-> r.allowed, level |-> r.level,
                       retry_after |-> r.retry_after, store_before |-> store]
    /\ UNCHANGED <<wsVars, tokenVars, now, ticks, redis_ok, tier_buckets, bucketVars, raceVars>>

NextDecorator ==
    \/ initialize_sync
    \/ \E d \in TickSteps : LimiterTick(d)
    \/ \E req \in Requests : CheckRateLimit(req)
    \/ \E req \in Requests, l \in DecoratorLimits : RateLimited(req, l[1], l[2])

SpecDecorator == Init /\ [][NextDecorator]_vars

\* A consume on the endpoint bucket leaves the identity's tier bucket with the
\* tokens it had.
EndpointConsumeLeavesTier ==
    (last.op = "rate_limit" /\ last.applied)
    => bucket_level(tier_buckets[last.tier], store, redis_ok, last.identifier, now)
        = bucket_level(tier_buckets[last.tier], last.store_before, redis_ok,
                       last.identifier, now)

\* A tier consume leaves the endpoint bucket of the identity with the tokens it
\* had, whatever limits the endpoint was given.
TierConsumeLeavesEndpoint ==
    (last.op = "check_rate_limit" /\ last.outcome # "error")
    => \A l \in DecoratorLimits :
        l[2] # 0 =>
            LET b == [capacity |-> l[1], refill_rate |-> l[2], redis |-> TRUE]
            IN  bucket_level(b, store, redis_ok, last.identifier, now)
                    = bucket_level(b, last.store_before, redis_ok, last.identifier, now)

\* C40: the endpoint limit of the rate_limit(capacity, refill_rate) decorator
\* is accounted separately from the tier limit: a consume on the endpoint
\* bucket for an identity does not change the tokens left for that identity in
\* its tier bucket, and a tier consume does not change the tokens left in the
\* endpoint bucket.
C40_EndpointLimitSeparate ==
    /\ EndpointConsumeLeavesTier
    /\ TierConsumeLeavesEndpoint

\* The level the spec's refill rule gives: min(capacity, k + (t - t0) * rate)
ExpectedLevel(b, k, t0, t) ==
    IF k + (t - t0) * b.refill_rate < Units(b.capacity)
    THEN k + (t - t0) * b.refill_rate
    ELSE Units(b.capacity)

\* What one consume of a check_rate_limit call did, against the refill rule
ConsumeFollowsRefill(b, c, identifier) ==
    (c.found /\ ~c.error)
        => IF c.allowed
           THEN /\ ExpectedLevel(b, c.read_tokens, c.read_last, last.t) >= Units(1)
                /\ store[_get_bucket_key(identifier)].tokens
                       = ExpectedLevel(b, c.read_tokens, c.read_last, last.t) - Units(1)
                /\ c.remaining
                       = (ExpectedLevel(b, c.read_tokens, c.read_last, last.t) - Units(1))
                             \div TokScale
           ELSE ExpectedLevel(b, c.read_tokens, c.read_last, last.t) < Units(1)

\* C3: reset_user_limit(X, tier) leaves what get_user_limits(X) reports for every
\* other tier the same immediately after the reset as immediately before it.
C3_TierIsolation ==
    (last.op = "reset_user_limit" /\ last.tier \in TierNames)
        => \A other \in TierNames \ {last.tier} : last.after[other] = last.before[other]

\* C4: check_rate_limit consumes from the IP bucket before the tier bucket: a
\* request whose IP bucket is exhausted is rejected there, whatever the tier bucket
\* of its identity holds, and the tier bucket is then not touched; a request the IP
\* bucket admits has paid its IP token before the tier bucket decides.
C4_IpThenTier ==
    last.op = "check_rate_limit"
        => /\ (last.ip.level < Units(1))
                  => /\ last.outcome = "ip_rejected"
                     /\ store[_get_bucket_key(last.identifier)] = last.before
           /\ (last.outcome = "ip_rejected") => (last.ip.level < Units(1))
           /\ (last.outcome \in {"allowed", "tier_rejected"} /\ redis_ok)
                  => store[_get_bucket_key(RawIpIdentifier(last.ip_address))].tokens
                         = last.ip.level - Units(1)

\* A request rejected at the IP bucket while its identity's tier bucket holds tokens.
C4_Witness ==
    /\ last.op = "check_rate_limit"
    /\ last.outcome = "ip_rejected"
    /\ "tokens" \in Live(store, _get_bucket_key(last.identifier), now).present
    /\ refill(tier_buckets[last.tier],
              store[_get_bucket_key(last.identifier)].tokens,
              store[_get_bucket_key(last.identifier)].last_refill, now) >= Units(1)

\* C37: what a rejection charges in check_rate_limit: a request the IP bucket
\* rejects is charged on neither bucket, the stored state of the IP bucket and
\* of the tier bucket is as before; a request the IP bucket admits and the tier
\* bucket rejects has paid one IP token, which is not given back.
C37_ChargingOnRejection ==
    last.op = "check_rate_limit"
        => LET ip_key == _get_bucket_key(RawIpIdentifier(last.ip_address))
               tier_key == _get_bucket_key(last.identifier)
           IN  /\ last.outcome = "ip_rejected" => store = last.store_before
               /\ last.outcome = "tier_rejected"
                    => /\ store[ip_key].tokens = last.ip.level - Units(1)
                       /\ store[ip_key].last_refill = last.t
                       /\ store[tier_key] = last.store_before[tier_key]
                       /\ \A k \in BucketKeys \ {ip_key} : store[k] = last.store_before[k]

\* A request the tier bucket rejected: the IP bucket, which the store held
\* before, has one token less than the level it had refilled to.
C37_Witness ==
    /\ last.op = "check_rate_limit"
    /\ last.outcome = "tier_rejected"
    /\ last.ip.found
    /\ store[_get_bucket_key(RawIpIdentifier(last.ip_address))].tokens
            = last.ip.level - Units(1)
    /\ store[_get_bucket_key(RawIpIdentifier(last.ip_address))]
            # last.store_before[_get_bucket_key(RawIpIdentifier(last.ip_address))]

\* C9: for an identifier with stored tokens k and lastRefill t0, the level computed
\* at time t >= t0 is min(capacity, k + (t - t0) * refillRate), in consume (the IP
\* bucket's and the tier bucket's) and in get_user_limits.
C9_RefillCorrectness ==
    /\ last.op = "check_rate_limit"
           => /\ ConsumeFollowsRefill(ip_limit, last.ip, RawIpIdentifier(last.ip_address))
              /\ ConsumeFollowsRefill(tier_buckets[last.tier], last.info, last.identifier)
    /\ (last.op = "get_user_limits" /\ ~last.error)
           => \A i \in 1..Len(last.status) :
                  last.status[i].found
                      => last.status[i].remaining
                             = ExpectedLevel(tier_buckets[last.status[i].tier],
                                             last.status[i].k, last.status[i].t0, last.t)
                                   \div TokScale

\* A tier consume that found a stored level below capacity and refilled it for a
\* positive elapsed time, without reaching the capacity.
C9_Witness ==
    /\ last.op = "check_rate_limit"
    /\ last.info.found
    /\ last.info.allowed
    /\ last.t > last.info.read_last
    /\ last.info.level > last.info.read_tokens
    /\ last.info.level < Units(tier_buckets[last.tier].capacity)

\* ================================================= the websocket side (SpecWS)
WsUsers == UserIds

Put(f, k, v) == [x \in DOMAIN f \cup {k} |-> IF x = k THEN v ELSE f[x]]

Del(f, k) == [x \in DOMAIN f \ {k} |-> f[x]]

Get(f, k, default) == IF k \in DOMAIN f THEN f[k] ELSE default

InList(seq, x) == \E i \in 1..Len(seq) : seq[i] = x

\* list.remove: the first occurrence goes
remove(seq, x) ==
    IF ~InList(seq, x)
    THEN seq
    ELSE LET i == CHOOSE j \in 1..Len(seq) :
                    seq[j] = x /\ \A k \in 1..(j - 1) : seq[k] # x
         IN  SubSeq(seq, 1, i - 1) \o SubSeq(seq, i + 1, Len(seq))

\* ------------------------------------------------------------- tokens
generate_access_token(user_id, t) ==
    [signed |-> TRUE, user_id |-> user_id, type |-> "access",
     exp |-> t + JWT_EXPIRATION_HOURS * 3600]

\* datetime.utcnow().timestamp(): the naive UTC datetime is read as local time,
\* so the result is off by the host's UTC offset
naive_utc_timestamp(t) == t - utc_offset * 3600

\* WebSocketAuth.verify_token: jwt.decode checks the signature and the expiry
\* (expired when exp <= now), then lines 119-121 compare the expiry again; the
\* type is not read.  ok = FALSE: WebSocketAuthError(error) is raised.
verify_token(token, t) ==
    IF ~token.signed
    THEN [ok |-> FALSE, error |-> "Invalid token", payload |-> NoToken]
    ELSE IF token.exp <= t
    THEN [ok |-> FALSE, error |-> "Token expired", payload |-> NoToken]
    ELSE IF token.exp # 0 /\ naive_utc_timestamp(t) > token.exp
    THEN [ok |-> FALSE, error |-> "Token expired", payload |-> NoToken]
    ELSE [ok |-> TRUE, error |-> "", payload |-> token]

\* WebSocketAuth.generate_refresh_token
generate_refresh_token(user_id, t) ==
    [signed |-> TRUE, user_id |-> user_id, type |-> "refresh",
     exp |-> t + REFRESH_TOKEN_DAYS * 24 * 3600]

\* A plausible slip: the type of the presented token is not looked at.
refresh_access_token_any_type(token, t) ==
    LET v == verify_token(token, t)
    IN  IF ~v.ok
        THEN [ok |-> FALSE, error |-> <<"Failed to refresh token", v.error>>,
              token |-> NoToken]
        ELSE IF v.payload.user_id = ""
        THEN [ok |-> FALSE, error |-> <<"Failed to refresh token", "Missing user_id in token">>,
              token |-> NoToken]
        ELSE [ok |-> TRUE, error |-> <<>>, token |-> generate_access_token(v.payload.user_id, t)]

\* WebSocketAuth.refresh_access_token.  ok = FALSE: WebSocketAuthError is raised,
\* its message the prefix of line 157 and the message of the inner error.
refresh_access_token(token, t) ==
    LET v == verify_token(token, t)
    IN  IF ~v.ok
        THEN [ok |-> FALSE, error |-> <<"Failed to refresh token", v.error>>,
              token |-> NoToken]
        ELSE IF v.payload.type # "refresh"
        THEN [ok |-> FALSE, error |-> <<"Failed to refresh token", "Invalid token type">>,
              token |-> NoToken]
        ELSE IF v.payload.user_id = ""
        THEN [ok |-> FALSE, error |-> <<"Failed to refresh token", "Missing user_id in token">>,
              token |-> NoToken]
        ELSE [ok |-> TRUE, error |-> <<>>, token |-> generate_access_token(v.payload.user_id, t)]

PresentedTokens == {NoToken} \cup {generate_access_token(u, 0) : u \in WsUsers}

\* ------------------------------------------------------ websockets
NewChannel == [peer |-> "up", closed |-> <<>>, inbox |-> <<>>, user_id |-> "",
               result |-> "pending"]

\* websocket.close(code): a websocket closes once, a second close raises
ws_close(ch, code) == IF ch.closed = <<>> THEN [ch EXCEPT !.closed = <<code>>] ELSE ch

\* websocket.send_json succeeds on an open websocket whose peer is there
CanSend(ch) == ch.peer = "up" /\ ch.closed = <<>>

\* websocket.send_json stays in its await while the peer takes no bytes: the
\* code sets no timeout on the send
Blocked(ch) == ch.peer = "stuck" /\ ch.closed = <<>>

\* A plausible slip: the sends of one message are awaited one after the other,
\* in the order of the sessions.
await_in_turn(ts, task) ==
    /\ task \in ts
    /\ \A other \in ts :
            other.message = task.message => other.session_id >= task.session_id

\* asyncio.gather makes a task of every coroutine it is given: the event loop
\* may resume any of them, whatever the others wait for
gather_ready(ts, task) == task \in ts

AuthSuccess(session_id, user_id) ==
    [type |-> "auth_success", session_id |-> session_id, user_id |-> user_id, n |-> 0]

TypingIndicator(user_id, n) ==
    [type |-> "typing_indicator", session_id |-> 0, user_id |-> user_id, n |-> n]

\* ------------------------------------------------- WebSocketAuth (ws_auth)
\* The two services' dictionaries, as one record the operations hand on.
WsState ==
    [connections |-> connections,
     user_sessions |-> user_sessions,
     session_user_map |-> session_user_map,
     active_sessions |-> active_sessions,
     connection_count |-> connection_count]

SetWsState(w) ==
    /\ connections' = w.connections
    /\ user_sessions' = w.user_sessions
    /\ session_user_map' = w.session_user_map
    /\ active_sessions' = w.active_sessions
    /\ connection_count' = w.connection_count

\* WebSocketAuth._create_session (connected_at, which nothing reads, is left out)
_create_session(w, session_id, user_id, t) ==
    [w EXCEPT !.active_sessions =
        Put(@, session_id, [user_id |-> user_id, last_activity |-> t])]

_increment_connection_count(w, user_id) ==
    [w EXCEPT !.connection_count = Put(@, user_id, Get(@, user_id, 0) + 1)]

_decrement_connection_count(w, user_id) ==
    IF user_id \in DOMAIN w.connection_count
    THEN [w EXCEPT !.connection_count[user_id] = Max(0, @ - 1)]
    ELSE w

update_session_activity(w, session_id, t) ==
    IF session_id \in DOMAIN w.active_sessions
    THEN [w EXCEPT !.active_sessions[session_id].last_activity = t]
    ELSE w

\* A plausible slip: the session goes, the user's counter stays.
close_session_keeps_count(w, session_id) ==
    IF session_id \in DOMAIN w.active_sessions
    THEN [w EXCEPT !.active_sessions = Del(@, session_id)]
    ELSE w

\* WebSocketAuth.close_session
close_session(w, session_id) ==
    IF session_id \in DOMAIN w.active_sessions
    THEN [_decrement_connection_count(w, w.active_sessions[session_id].user_id)
            EXCEPT !.active_sessions = Del(@, session_id)]
    ELSE w

\* A plausible slip: the session is created before the payload is looked at.
authenticate_connection_session_first(w, token, session_id, t) ==
    IF ~verify_token(token, t).ok
    THEN [ok |-> FALSE, user_id |-> "", code |-> 1008, w |-> w]
    ELSE IF token.user_id = ""
    THEN [ok |-> FALSE, user_id |-> "", code |-> 1008,
          w |-> _create_session(w, session_id, token.user_id, t)]
    ELSE [ok |-> TRUE, user_id |-> token.user_id, code |-> 0,
          w |-> _increment_connection_count(
                    _create_session(w, session_id, token.user_id, t), token.user_id)]

\* WebSocketAuth.authenticate_connection: ok = FALSE when it raises
\* WebSocketException(code)
authenticate_connection(w, token, session_id, t) ==
    IF verify_token(token, t).ok /\ token.user_id # ""
    THEN [ok |-> TRUE, user_id |-> token.user_id, code |-> 0,
          w |-> _increment_connection_count(
                    _create_session(w, session_id, token.user_id, t), token.user_id)]
    ELSE [ok |-> FALSE, user_id |-> "", code |-> 1008, w |-> w]

get_user_connection_count(counts, user_id) == Get(counts, user_id, 0)

RECURSIVE close_all(_, _)
close_all(w, ids) ==
    IF ids = {}
    THEN w
    ELSE LET id == CHOOSE x \in ids : TRUE
         IN  close_all(close_session(w, id), ids \ {id})

\* A plausible slip: the stale sessions are deleted without close_session.
cleanup_stale_sessions_deletes(w, t) ==
    [w EXCEPT !.active_sessions =
        [id \in {x \in DOMAIN @ : ~(t - @[x].last_activity > STALE_MINUTES * 60)} |-> @[id]]]

\* WebSocketAuth.cleanup_stale_sessions(timeout_minutes=30)
cleanup_stale_sessions(w, t) ==
    close_all(w, {id \in DOMAIN w.active_sessions :
                    t - w.active_sessions[id].last_activity > STALE_MINUTES * 60})

\* ---------------------------------------------------- ConnectionManager
\* A plausible slip: the ceiling test lets one more connection in.
_check_connection_limit_inclusive(sessions, limit, user_id) ==
    Len(Get(sessions, user_id, <<>>)) <= limit

_check_connection_limit(sessions, limit, user_id) ==
    Len(Get(sessions, user_id, <<>>)) < limit

\* A plausible slip: the ws_auth session is closed even when the session id is
\* not in connections.
disconnect_closes_unregistered(w, session_id) ==
    IF session_id \notin DOMAIN w.connections
    THEN close_session(w, session_id)
    ELSE close_session([w EXCEPT !.connections = Del(@, session_id),
                                 !.session_user_map = Del(@, session_id),
                                 !.user_sessions =
                                    LET u == w.session_user_map[session_id]
                                        rest == remove(@[u], session_id)
                                    IN  IF rest = <<>> THEN Del(@, u) ELSE Put(@, u, rest)],
                       session_id)

\* A plausible slip: the session stays in its user's list.
disconnect_keeps_list(w, session_id) ==
    IF session_id \notin DOMAIN w.connections
    THEN w
    ELSE close_session([w EXCEPT !.connections = Del(@, session_id),
                                 !.session_user_map = Del(@, session_id)],
                       session_id)

\* ConnectionManager.disconnect: no await inside, so it runs in one piece
disconnect(w, session_id) ==
    IF session_id \notin DOMAIN w.connections
    THEN w
    ELSE LET user_id == Get(w.session_user_map, session_id, "")
             w1 == [w EXCEPT !.connections = Del(@, session_id),
                             !.session_user_map = Del(@, session_id)]
             w2 == IF user_id # "" /\ user_id \in DOMAIN w1.user_sessions
                   THEN LET rest == remove(w1.user_sessions[user_id], session_id)
                        IN  [w1 EXCEPT !.user_sessions =
                                IF rest = <<>> THEN Del(@, user_id)
                                ELSE Put(@, user_id, rest)]
                   ELSE w1
         IN  close_session(w2, session_id)

\* disconnect raises when the del of line 145 or the remove of line 149 finds
\* nothing to take out; a session id that is not in connections returns at once
disconnect_raises(w, session_id) ==
    /\ session_id \in DOMAIN w.connections
    /\ \/ session_id \notin DOMAIN w.session_user_map
       \/ LET user_id == w.session_user_map[session_id]
          IN  /\ user_id # ""
              /\ user_id \in DOMAIN w.user_sessions
              /\ ~InList(w.user_sessions[user_id], session_id)

\* A plausible slip: the failed send is logged and the session kept.
send_to_session_keeps(w, session_id) == w

\* send_to_session, lines 178-180: the except branch
send_to_session_except(w, session_id) == disconnect(w, session_id)

\* connect, lines 83-88
register(w, session_id, websocket, user_id) ==
    [w EXCEPT !.connections = Put(@, session_id, websocket),
              !.session_user_map = Put(@, session_id, user_id),
              !.user_sessions =
                    Put(@, user_id, Append(Get(@, user_id, <<>>), session_id))]

\* A plausible slip: the exclusion list is not applied.
broadcast_to_all(conns, exclude_sessions) == DOMAIN conns

\* ConnectionManager.broadcast, lines 210-215: the sessions a send is made for
broadcast(conns, exclude_sessions) ==
    {session_id \in DOMAIN conns : ~InList(exclude_sessions, session_id)}

\* ------------------------------------------------------ SpecWS: the actions
limiterSide == <<redis_ok, store, bucketVars, limiterVars, raceVars, tokenVars>>

\* ConnectionManager.connect, from accept to the await of the auth_success send.
\* The session id (a uuid4 in the code) is the number of the websocket.
Connect(token) ==
    /\ next_id < MaxChannels
    /\ LET websocket == next_id + 1
           session_id == websocket
           auth == authenticate_connection(WsState, token, session_id, now)
       IN  /\ next_id' = websocket
           /\ IF ~auth.ok
              THEN \* the except branch: close(1011) and raise
                   /\ SetWsState(WsState)
                   /\ channels' = Put(channels, websocket,
                                      [ws_close(NewChannel, 1011) EXCEPT !.result = "raised"])
                   /\ tasks' = tasks
                   /\ last' = [op |-> "connect", user_id |-> "", session_id |-> session_id,
                               outcome |-> "auth_failed"]
              ELSE IF ~_check_connection_limit(auth.w.user_sessions,
                                               max_connections_per_user, auth.user_id)
              THEN \* close(1008), raise, and the except branch's close(1011)
                   /\ SetWsState(auth.w)
                   /\ channels' = Put(channels, websocket,
                                      [ws_close(ws_close(NewChannel, 1008), 1011)
                                         EXCEPT !.result = "raised",
                                                !.user_id = auth.user_id])
                   /\ tasks' = tasks
                   /\ last' = [op |-> "connect", user_id |-> auth.user_id,
                               session_id |-> session_id,
                               outcome |-> "limit",
                               before |-> [connections |-> connections,
                                           user_sessions |-> user_sessions,
                                           session_user_map |-> session_user_map,
                                           channels |-> channels,
                                           active_sessions |-> active_sessions,
                                           connection_count |-> connection_count]]
              ELSE \* registered; send_to_session up to its await of send_json
                   /\ SetWsState(update_session_activity(
                            register(auth.w, session_id, websocket, auth.user_id),
                            session_id, now))
                   /\ channels' = Put(channels, websocket,
                                      [NewChannel EXCEPT !.user_id = auth.user_id])
                   /\ tasks' = tasks \cup
                            {[session_id |-> session_id, websocket |-> websocket,
                              phase |-> "sending",
                              message |-> AuthSuccess(session_id, auth.user_id)]}
                   /\ last' = [op |-> "connect", user_id |-> auth.user_id,
                               session_id |-> session_id,
                               outcome |-> "registered"]
    /\ UNCHANGED <<now, ticks, limiterSide, endpointVars, max_connections_per_user, call>>

\* The sends of one kind that wait for one session, in one phase.
Pending(session_id, type, phase) ==
    {task \in tasks : /\ task.session_id = session_id
                      /\ task.message.type = type
                      /\ task.phase = phase}

MessageTypes == {"auth_success", "typing_indicator", "announcement", "notification"}

\* send_to_session, lines 170-174, for a send that broadcast scheduled
SendStart(session_id) ==
    \E task \in {t \in tasks : t.session_id = session_id /\ t.phase = "scheduled"} :
        /\ gather_ready(tasks, task)
        /\ IF task.session_id \in DOMAIN connections
           THEN /\ SetWsState(update_session_activity(WsState, task.session_id, now))
                /\ tasks' = (tasks \ {task}) \cup
                                {[task EXCEPT !.phase = "sending",
                                              !.websocket = connections[task.session_id]]}
           ELSE /\ SetWsState(WsState)
                /\ tasks' = tasks \ {task}
        /\ last' = [op |-> "step"]
        /\ UNCHANGED <<now, ticks, limiterSide, endpointVars, max_connections_per_user, next_id,
                       channels, call>>

\* send_to_session, lines 177-180: send_json returns or raises; for the
\* auth_success message connect then goes on, lines 101-115
SendFinish(session_id, type) ==
    \E task \in Pending(session_id, type, "sending") :
        /\ gather_ready(tasks, task)
        /\ ~Blocked(channels[task.websocket])
        /\ LET sent == CanSend(channels[task.websocket])
               w == IF sent THEN WsState
                    ELSE send_to_session_except(WsState, task.session_id)
               ch1 == IF sent
                      THEN [channels[task.websocket] EXCEPT !.inbox = Append(@, task.message)]
                      ELSE channels[task.websocket]
               ch2 == IF task.message.type # "auth_success"
                      THEN ch1
                      ELSE IF task.message.user_id \in DOMAIN w.user_sessions
                      THEN [ch1 EXCEPT !.result = "returned"]
                      ELSE [ws_close(ch1, 1011) EXCEPT !.result = "raised"]
           IN  /\ SetWsState(w)
               /\ channels' = [channels EXCEPT ![task.websocket] = ch2]
               /\ call' = IF ~sent /\ task.message.type # "auth_success"
                          THEN [call EXCEPT !.failed = @ \cup {task.session_id}]
                          ELSE call
               /\ last' = IF /\ task.message.type = "auth_success"
                             /\ task.message.user_id \in DOMAIN w.user_sessions
                          THEN [op |-> "connect_returned",
                                session_id |-> task.session_id,
                                user_id |-> task.message.user_id,
                                connection_count |->
                                    Len(w.user_sessions[task.message.user_id])]
                          ELSE [op |-> "step"]
        /\ tasks' = tasks \ {task}
        /\ UNCHANGED <<now, ticks, limiterSide, endpointVars, max_connections_per_user, next_id>>

\* ConnectionManager.disconnect, as the chat endpoint, the admin route or
\* cleanup call it
Disconnect(session_id) ==
    /\ session_id \in 1..next_id
    /\ SetWsState(disconnect(WsState, session_id))
    /\ last' = IF session_id \in DOMAIN connections
               THEN [op |-> "disconnect", was_registered |-> TRUE,
                     raised |-> disconnect_raises(WsState, session_id),
                     session_id |-> session_id, before |-> WsState]
               ELSE [op |-> "disconnect", was_registered |-> FALSE,
                     raised |-> disconnect_raises(WsState, session_id),
                     session_id |-> session_id, before |-> WsState]
    /\ UNCHANGED <<now, ticks, limiterSide, endpointVars, max_connections_per_user, next_id,
                   channels, tasks, call>>

\* The disconnect of a session that is registered.
DisconnectRegistered(session_id) ==
    session_id \in DOMAIN connections /\ Disconnect(session_id)

\* The client goes away without a close handshake.
PeerDown(websocket) ==
    /\ websocket \in DOMAIN channels
    /\ channels[websocket].peer = "up"
    /\ Cardinality({c \in DOMAIN channels : channels[c].peer = "down"}) < MaxPeerDowns
    /\ channels' = [channels EXCEPT ![websocket].peer = "down"]
    /\ last' = [op |-> "step"]
    /\ UNCHANGED <<now, ticks, limiterSide, endpointVars, max_connections_per_user, next_id,
                   registryVars, authVars, tasks, call>>

\* The client stays connected and stops reading: the bytes sent to it pile up.
PeerStuck(websocket) ==
    /\ websocket \in DOMAIN channels
    /\ channels[websocket].peer = "up"
    /\ Cardinality({c \in DOMAIN channels : channels[c].peer = "stuck"}) < MaxPeerStuck
    /\ channels' = [channels EXCEPT ![websocket].peer = "stuck"]
    /\ last' = [op |-> "step"]
    /\ UNCHANGED <<now, ticks, limiterSide, endpointVars, max_connections_per_user, next_id,
                   registryVars, authVars, tasks, call>>

\* ConnectionManager.send_typing_indicator, up to the await of gather
SendTypingIndicator(user_id) ==
    /\ call.n < MaxBroadcasts
    /\ \A task \in tasks : task.message.type = "auth_success"
    /\ LET sender_sessions == Get(user_sessions, user_id, <<>>)
           message == TypingIndicator(user_id, call.n + 1)
       IN  /\ tasks' = tasks \cup
                    {[session_id |-> session_id, websocket |-> 0,
                      phase |-> "scheduled", message |-> message] :
                        session_id \in broadcast(connections, sender_sessions)}
           /\ call' = [n |-> call.n + 1, user_id |-> user_id, at_call |-> connections,
                       exclude |-> sender_sessions, failed |-> {},
                       index |-> 0, iterating |-> FALSE]
    /\ last' = [op |-> "step"]
    /\ UNCHANGED <<now, ticks, limiterSide, endpointVars, max_connections_per_user, next_id,
                   registryVars, authVars, channels>>

Announcement(n) ==
    [type |-> "announcement", session_id |-> 0, user_id |-> "", n |-> n]

\* ConnectionManager.broadcast(message, exclude_sessions), up to the await of
\* gather; the /ws/broadcast route calls it with no exclusion list
Broadcast(exclude_sessions) ==
    /\ call.n < MaxBroadcasts
    /\ \A task \in tasks : task.message.type = "auth_success"
    /\ tasks' = tasks \cup
            {[session_id |-> session_id, websocket |-> 0,
              phase |-> "scheduled", message |-> Announcement(call.n + 1)] :
                session_id \in broadcast(connections, exclude_sessions)}
    /\ call' = [n |-> call.n + 1, user_id |-> "", at_call |-> connections,
                exclude |-> exclude_sessions, failed |-> {},
                index |-> 0, iterating |-> FALSE]
    /\ last' = [op |-> "step"]
    /\ UNCHANGED <<now, ticks, limiterSide, endpointVars, max_connections_per_user, next_id,
                   registryVars, authVars, channels>>

Notification(user_id, n) ==
    [type |-> "notification", session_id |-> 0, user_id |-> user_id, n |-> n]

\* send_to_user, lines 195-196: the for loop takes the next element of the
\* live list user_sessions[user_id] and runs send_to_session up to its await
\* of send_json; index is the position of the list iterator
send_to_user_loop(c) ==
    LET session_ids == Get(user_sessions, c.user_id, <<>>)
    IN  IF c.index < Len(session_ids)
        THEN LET session_id == session_ids[c.index + 1]
             IN  /\ call' = [c EXCEPT !.index = @ + 1]
                 /\ IF session_id \in DOMAIN connections
                    THEN /\ SetWsState(update_session_activity(WsState, session_id, now))
                         /\ tasks' = tasks \cup
                                {[session_id |-> session_id,
                                  websocket |-> connections[session_id],
                                  phase |-> "sending",
                                  message |-> Notification(c.user_id, c.n)]}
                    ELSE /\ SetWsState(WsState)
                         /\ tasks' = tasks
        ELSE /\ call' = [c EXCEPT !.iterating = FALSE]
             /\ SetWsState(WsState)
             /\ tasks' = tasks

\* ConnectionManager.send_to_user(user_id, message), up to the first await
SendToUser(user_id) ==
    /\ call.n < MaxBroadcasts
    /\ \A task \in tasks : task.message.type = "auth_success"
    /\ send_to_user_loop([n |-> call.n + 1, user_id |-> user_id, at_call |-> connections,
                          exclude |-> <<>>, failed |-> {}, index |-> 0,
                          iterating |-> TRUE])
    /\ last' = [op |-> "step"]
    /\ UNCHANGED <<now, ticks, limiterSide, endpointVars, max_connections_per_user, next_id, channels>>

\* send_to_user, after the awaited send_to_session returned: the next turn of
\* the loop, or the return
SendToUserResume ==
    /\ call.iterating
    /\ \A task \in tasks : task.message.type # "notification"
    /\ send_to_user_loop(call)
    /\ last' = [op |-> "step"]
    /\ UNCHANGED <<now, ticks, limiterSide, endpointVars, max_connections_per_user, next_id, channels>>

\* WebSocketAuth.cleanup_stale_sessions
CleanupStaleSessions ==
    /\ used.admin < MaxCleanups
    /\ used' = [used EXCEPT !.admin = @ + 1]
    /\ SetWsState(cleanup_stale_sessions(WsState, now))
    /\ last' = [op |-> "step"]
    /\ UNCHANGED <<now, ticks, redis_ok, store, bucketVars, tier_buckets, raceVars,
                   tokenVars, endpointVars, max_connections_per_user, next_id, channels, tasks, call>>

\* Just past the 30 minutes after which a session counts as stale.
WsTickStep == STALE_MINUTES * 60 + 1

WsTick == ticks < MaxWsTicks /\ Tick(WsTickStep)

ConnectionLimits == {1, 2}

InitWS ==
    /\ tier_buckets = default_limits
    /\ used = [requests |-> 0, admin |-> 0]
    /\ now = 0
    /\ ticks = 0
    /\ redis_ok = FALSE
    /\ store = [k \in BucketKeys |-> EmptyEntry]
    /\ bucket = ip_limit
    /\ calls = [i \in Identifiers |-> 0]
    /\ run = [i \in Identifiers |-> 0]
    /\ RaceIdle
    /\ \E limit \in ConnectionLimits : WsIdle(limit)
    /\ last = [op |-> "init"]

NextWS ==
    \/ \E token \in PresentedTokens : Connect(token)
    \/ \E session_id \in 1..MaxChannels, type \in MessageTypes : SendFinish(session_id, type)
    \/ \E session_id \in 1..MaxChannels : Disconnect(session_id)
    \/ \E websocket \in 1..MaxChannels : PeerDown(websocket)
    \/ CleanupStaleSessions
    \/ WsTick

SpecWS == InitWS /\ [][NextWS]_vars

\* How many session ids of the list are session_id.
Occurrences(seq, session_id) == Cardinality({i \in 1..Len(seq) : seq[i] = session_id})

\* C5: in every reachable state no user has more than max_connections_per_user
\* sessions registered; a connect attempted while the user is at the ceiling is
\* rejected, and it leaves the registry and the websockets of the sessions
\* already registered as they were.
C5_ConnectionCeiling ==
    /\ \A u \in DOMAIN user_sessions :
            Len(user_sessions[u]) <= max_connections_per_user
    /\ (last.op = "connect" /\ last.outcome = "limit")
            => /\ Len(last.before.user_sessions[last.user_id]) = max_connections_per_user
               /\ connections = last.before.connections
               /\ user_sessions = last.before.user_sessions
               /\ session_user_map = last.before.session_user_map
               /\ last.session_id \notin DOMAIN connections
               /\ channels[last.session_id].closed = <<1008>>
               /\ \A sid \in DOMAIN connections :
                        channels[connections[sid]] = last.before.channels[connections[sid]]
    /\ (last.op = "connect" /\ last.outcome = "registered")
            => /\ last.session_id \in DOMAIN connections
               /\ Len(user_sessions[last.user_id]) <= max_connections_per_user

\* With a ceiling of two, a third connection of the user was just rejected and
\* the first two are registered and open.
C5_Witness ==
    /\ last.op = "connect"
    /\ last.outcome = "limit"
    /\ max_connections_per_user = 2
    /\ Len(user_sessions[last.user_id]) = 2
    /\ \A i \in 1..2 : channels[connections[user_sessions[last.user_id][i]]].closed = <<>>

\* C30: a session exists only for an accepted connection: when connect is
\* rejected because the user is at the per-user ceiling, no session created for
\* the attempt remains in ws_auth.active_sessions, and the user's connection
\* counter in ws_auth is after the attempt what it was before.
C30_RejectedConnectLeavesNoSession ==
    (last.op = "connect" /\ last.outcome = "limit")
        => /\ last.session_id \notin DOMAIN active_sessions
           /\ active_sessions = last.before.active_sessions
           /\ get_user_connection_count(connection_count, last.user_id)
                = get_user_connection_count(last.before.connection_count, last.user_id)

\* C6: between any two steps of the event loop, every session id in connections
\* appears exactly once in the session list of the user session_user_map gives
\* and in no other list, every session id in a list is in connections, and no
\* list is empty.
C6_RegistryInvariant ==
    /\ DOMAIN session_user_map = DOMAIN connections
    /\ \A sid \in DOMAIN connections :
            /\ session_user_map[sid] \in DOMAIN user_sessions
            /\ \A u \in DOMAIN user_sessions :
                    Occurrences(user_sessions[u], sid)
                        = IF u = session_user_map[sid] THEN 1 ELSE 0
    /\ \A u \in DOMAIN user_sessions :
            /\ user_sessions[u] # <<>>
            /\ \A i \in 1..Len(user_sessions[u]) : user_sessions[u][i] \in DOMAIN connections

\* A registered session was just disconnected while others stay registered.
C6_Witness ==
    /\ last.op = "disconnect"
    /\ last.was_registered
    /\ DOMAIN connections # {}

\* C11: a disconnect of a session id that is not registered (disconnected
\* before, rejected by connect, or never issued) changes nothing in the
\* connection manager or in ws_auth, and does not raise.
C11_IdempotentDisconnect ==
    (last.op = "disconnect" /\ ~last.was_registered)
        => /\ WsState = last.before
           /\ ~last.raised

\* A second disconnect of a session that was registered and disconnected, while
\* ws_auth still holds the session of a connect that was rejected.
C11_Witness ==
    /\ last.op = "disconnect"
    /\ ~last.was_registered
    /\ channels[last.session_id].result = "returned"
    /\ \E sid \in DOMAIN active_sessions : sid \notin DOMAIN connections

\* C7: whenever no call is in progress, the session ids in ws_auth.active_sessions
\* are exactly those in connections, and for every user the count ws_auth keeps
\* equals the number of sessions the connection manager has registered.
C7_BookkeepingConsistent ==
    tasks = {}
        => /\ DOMAIN active_sessions = DOMAIN connections
           /\ \A u \in WsUsers :
                get_user_connection_count(connection_count, u)
                    = Len(Get(user_sessions, u, <<>>))

\* What disconnect(s) of a registered session did to the registry and to the
\* sessions of ws_auth, the user's counter left aside: s is gone from
\* connections, session_user_map, its user's list (the user's entry with it
\* when the list is empty) and active_sessions, every other entry is as before.
DisconnectRemovesOnlySession ==
    LET sid == last.session_id
        b == last.before
        u == b.session_user_map[sid]
        rest == remove(b.user_sessions[u], sid)
    IN  /\ connections = Del(b.connections, sid)
        /\ session_user_map = Del(b.session_user_map, sid)
        /\ user_sessions = IF rest = <<>> THEN Del(b.user_sessions, u)
                           ELSE Put(b.user_sessions, u, rest)
        /\ active_sessions = Del(b.active_sessions, sid)
        /\ \A other \in WsUsers \ {u} :
                Get(connection_count, other, 0) = Get(b.connection_count, other, 0)

C15_FailedConnectPolicyClose ==
    (last.op = "connect" /\ last.outcome \in {"auth_failed", "limit"})
        => /\ channels[last.session_id].closed = <<1008>>
           /\ channels[last.session_id].result = "raised"
           /\ last.session_id \notin DOMAIN connections

\* A connect that the token check rejected.
C15_Witness ==
    /\ last.op = "connect"
    /\ last.outcome = "auth_failed"
    /\ channels[last.session_id].closed # <<>>

\* C16: when connect has returned normally, the session id it returned is in
\* connections and in the session list of the returned user, auth_success was
\* the first message pushed to the channel, and the returned connection_count
\* is the number of the user's registered sessions.
C16_ReturnMeansRegistered ==
    last.op = "connect_returned"
        => /\ last.session_id \in DOMAIN connections
           /\ InList(Get(user_sessions, last.user_id, <<>>), last.session_id)
           /\ channels[last.session_id].inbox
                    = <<AuthSuccess(last.session_id, last.user_id)>>
           /\ last.connection_count = Len(Get(user_sessions, last.user_id, <<>>))

\* A connect that returned to its caller.
C16_Witness ==
    /\ last.op = "connect_returned"
    /\ channels[last.session_id].result = "returned"

\* C17: a request that the limiter rejected, at the IP bucket or at the tier
\* bucket, is answered 429 with a Retry-After header holding the decision's
\* retry-after seconds, and the downstream handler did not run for it.
C17_RejectedGets429RetryAfter ==
    (last.op = "check_rate_limit" /\ last.outcome \in {"ip_rejected", "tier_rejected"})
        => /\ last.response.status_code = 429
           /\ last.response.retry_after = <<last.retry_after>>
           /\ ~last.response.handled

\* A rejected request.
C17_Witness ==
    /\ last.op = "check_rate_limit"
    /\ last.outcome \in {"ip_rejected", "tier_rejected"}
    /\ last.response.status_code = 429

\* C19: get_user_limits(u) leaves the bucket store as it was: no entry is
\* created for u and its tokens and last_refill are not modified.
C19_ProbeIsReadOnly ==
    last.op = "get_user_limits"
        => store[_get_bucket_key(UserIdentifier(last.user_id))] = last.before

\* A probe, with Redis connected, of a user who has no stored entry.
C19_Witness ==
    /\ last.op = "get_user_limits"
    /\ redis_ok
    /\ last.before.present = {}

\* C20: update_tier_limits(tier, capacity, rate) binds the tier name to the new
\* capacity and rate and leaves the configuration of every other tier and every
\* stored (tokens, last_refill) as they were; a consume through a tier computes
\* its level with the capacity and rate bound to the tier at that time.
C20_TierUpdateFrame ==
    /\ last.op = "update_tier_limits"
            => /\ tier_buckets[last.tier].capacity = last.capacity
               /\ tier_buckets[last.tier].refill_rate = last.refill_rate
               /\ \A other \in TierNames \ {last.tier} :
                        tier_buckets[other] = last.before[other]
               /\ store = last.store_before
    /\ (last.op = "check_rate_limit" /\ last.outcome # "ip_rejected" /\ ~last.ip.error)
            => last.info.level
                    = ExpectedLevel(tier_buckets[last.tier], last.info.read_tokens,
                                    last.info.read_last, last.t)

\* A request decided through a tier after update_tier_limits rebound it, on
\* an entry stored before.
C20_Witness ==
    /\ last.op = "check_rate_limit"
    /\ last.outcome \in {"allowed", "tier_rejected"}
    /\ tier_buckets[last.tier] # default_limits[last.tier]
    /\ last.info.found
    /\ redis_ok

\* The tiers a reset_user_limit call resets: the one named, or every
\* configured tier when none, or an unknown one, is named.
\* What each tier's bucket reads from the store for an identifier is within
\* that tier's capacity.
TierReadsWithinCapacity ==
    \A name \in TierNames, i \in Identifiers :
        _get_bucket_state(tier_buckets[name], store, redis_ok, i, now).tokens
            <= Units(tier_buckets[name].capacity)

\* The lastRefill stored under a key does not go back.
LastRefillNeverDecreases ==
    \A k \in BucketKeys :
        ("last_refill" \in store[k].present /\ "last_refill" \in store'[k].present)
            => store'[k].last_refill >= store[k].last_refill

\* C29: after any sequence of check_rate_limit (whatever tier the request
\* carries), reset_user_limit and update_tier_limits calls, for every tier and
\* every identifier the tokens value that tier's bucket reads from the store is
\* at most the tier's current capacity, and the stored lastRefill of an
\* identifier never decreases.
C29_BucketStateInvariant ==
    /\ []TierReadsWithinCapacity
    /\ [][LastRefillNeverDecreases]_vars

ResetTiers == IF last.tier \in TierNames THEN {last.tier} ELSE TierNames

\* C21: after reset_user_limit(u, tier), the next get_user_limits(u), when it
\* returns a report, gives remaining = capacity for each reset tier, and the
\* next unit consume through a reset tier is admitted.
C21_ResetGivesFullCapacity ==
    (last.op = "reset_user_limit" /\ \A name \in TierNames : last.after[name] >= 0)
        => \A name \in ResetTiers :
                /\ last.after[name] = tier_buckets[name].capacity
                /\ last.next_consume[name]

\* A reset of every tier, with Redis connected, of a user whose bucket was used.
C21_Witness ==
    /\ last.op = "reset_user_limit"
    /\ last.tier = ""
    /\ redis_ok
    /\ \E name \in TierNames :
            last.before[name] >= 0 /\ last.before[name] < tier_buckets[name].capacity

\* ------------------------------------ typing indicators (SpecTyping)
\* The module's own instance: connection_manager = ConnectionManager()
InitTyping ==
    /\ tier_buckets = default_limits
    /\ used = [requests |-> 0, admin |-> 0]
    /\ now = 0
    /\ ticks = 0
    /\ redis_ok = FALSE
    /\ store = [k \in BucketKeys |-> EmptyEntry]
    /\ bucket = ip_limit
    /\ calls = [i \in Identifiers |-> 0]
    /\ run = [i \in Identifiers |-> 0]
    /\ RaceIdle
    /\ WsIdle(DefaultMaxConnections)
    /\ last = [op |-> "init"]

NextTyping ==
    \/ \E token \in PresentedTokens : Connect(token)
    \/ \E session_id \in 1..MaxChannels : SendStart(session_id)
    \/ \E session_id \in 1..MaxChannels, type \in MessageTypes : SendFinish(session_id, type)
    \/ \E session_id \in 1..MaxChannels : DisconnectRegistered(session_id)
    \/ \E websocket \in 1..MaxChannels : PeerDown(websocket)
    \/ \E user_id \in WsUsers : SendTypingIndicator(user_id)

SpecTyping == InitTyping /\ [][NextTyping]_vars

\* The latest send_typing_indicator call has returned.
TypingDone ==
    /\ call.n > 0
    /\ \A task \in tasks : task.message.type # "typing_indicator"

\* The typing event of the latest call was sent on the websocket.
GotTyping(websocket) ==
    InList(channels[websocket].inbox, TypingIndicator(call.user_id, call.n))

\* C10 as stated: send_typing_indicator never delivers the typing event to a
\* session of the typing user, and delivers it to every session of every other
\* user that is registered when the call is made.
C10_BroadcastExclusion ==
    TypingDone
        => /\ \A c \in DOMAIN channels :
                channels[c].user_id = call.user_id => ~GotTyping(c)
           /\ \A sid \in DOMAIN call.at_call :
                channels[call.at_call[sid]].user_id # call.user_id
                    => GotTyping(call.at_call[sid])

\* C10, amended: send_typing_indicator never delivers the typing event to a
\* session of the typing user; every session of another user that is registered
\* when the call is made has been sent the event when the call returns, unless
\* its send failed or it was disconnected before its send ran, and then it is no
\* longer registered.
C10_ExclusionAndDelivery ==
    TypingDone
        => /\ \A c \in DOMAIN channels :
                channels[c].user_id = call.user_id => ~GotTyping(c)
           /\ \A sid \in DOMAIN call.at_call :
                channels[call.at_call[sid]].user_id # call.user_id
                    => \/ GotTyping(call.at_call[sid])
                       \/ sid \notin DOMAIN connections

\* A call that returned: the typing user had a session registered, one session
\* of another user was sent the event and another one was not.
C10_Witness ==
    /\ TypingDone
    /\ \E sid \in DOMAIN call.at_call : channels[call.at_call[sid]].user_id = call.user_id
    /\ \E sid \in DOMAIN call.at_call :
            /\ channels[call.at_call[sid]].user_id # call.user_id
            /\ GotTyping(call.at_call[sid])
    /\ \E sid \in DOMAIN call.at_call :
            /\ channels[call.at_call[sid]].user_id # call.user_id
            /\ ~GotTyping(call.at_call[sid])

\* ------------------------------------------------- tokens (SpecToken)
UtcOffsets == {0 - 5, 0, 2}

TokenSteps == {1, 3600, 18 * 3600, REFRESH_TOKEN_DAYS * 24 * 3600}

GenerateAccessToken(user_id) ==
    /\ issued = NoToken
    /\ issued' = generate_access_token(user_id, now)
    /\ last' = [op |-> "generate_access_token", user_id |-> user_id, t |-> now]
    /\ UNCHANGED <<now, ticks, redis_ok, store, bucketVars, limiterVars, raceVars,
                   wsVars, utc_offset>>

VerifyToken ==
    /\ issued # NoToken
    /\ last' = [op |-> "verify_token", t |-> now, result |-> verify_token(issued, now)]
    /\ UNCHANGED <<now, ticks, redis_ok, store, bucketVars, limiterVars, raceVars,
                   wsVars, tokenVars>>

GenerateRefreshToken(user_id) ==
    /\ issued = NoToken
    /\ issued' = generate_refresh_token(user_id, now)
    /\ last' = [op |-> "generate_refresh_token", user_id |-> user_id, t |-> now]
    /\ UNCHANGED <<now, ticks, redis_ok, store, bucketVars, limiterVars, raceVars,
                   wsVars, utc_offset>>

\* refresh_access_token, given the issued token or a copy of it whose
\* signature does not verify
RefreshAccessToken(tampered) ==
    /\ issued # NoToken
    /\ LET presented == IF tampered THEN [issued EXCEPT !.signed = FALSE] ELSE issued
       IN  last' = [op |-> "refresh_access_token", t |-> now, presented |-> presented,
                    verified |-> verify_token(presented, now).ok,
                    result |-> refresh_access_token(presented, now)]
    /\ UNCHANGED <<now, ticks, redis_ok, store, bucketVars, limiterVars, raceVars,
                   wsVars, tokenVars>>

TokenTick(d) == ticks < MaxTokenTicks /\ Tick(d)

InitToken ==
    /\ tier_buckets = default_limits
    /\ used = [requests |-> 0, admin |-> 0]
    /\ now \in {0, 7200}
    /\ ticks = 0
    /\ redis_ok = FALSE
    /\ store = [k \in BucketKeys |-> EmptyEntry]
    /\ bucket = ip_limit
    /\ calls = [i \in Identifiers |-> 0]
    /\ run = [i \in Identifiers |-> 0]
    /\ RaceIdle
    /\ max_connections_per_user = DefaultMaxConnections
    /\ next_id = 0
    /\ connections = EmptyMap
    /\ user_sessions = EmptyMap
    /\ session_user_map = EmptyMap
    /\ active_sessions = EmptyMap
    /\ connection_count = EmptyMap
    /\ channels = EmptyMap
    /\ tasks = {}
    /\ call = NoCall
    /\ active_connections = EmptyMap
    /\ endpoints = EmptyMap
    /\ utc_offset \in UtcOffsets
    /\ issued = NoToken
    /\ last = [op |-> "init"]

NextToken ==
    \/ \E user_id \in WsUsers : GenerateAccessToken(user_id)
    \/ VerifyToken
    \/ \E user_id \in WsUsers : GenerateRefreshToken(user_id)
    \/ \E tampered \in BOOLEAN : RefreshAccessToken(tampered)
    \/ \E d \in TokenSteps : TokenTick(d)

SpecToken == InitToken /\ [][NextToken]_vars

\* C12: verify_token(generate_access_token(u)) returns a payload with user_id = u
\* and type "access" while the clock is before the issue time plus the access
\* TTL, and fails with a token-expired error once the clock has passed it.
C12_TokenRoundTrip ==
    (last.op = "verify_token" /\ issued.type = "access")
        => /\ last.t < issued.exp
                => /\ last.result.ok
                   /\ last.result.payload.user_id = issued.user_id
                   /\ last.result.payload.type = "access"
           /\ last.t > issued.exp
                => /\ ~last.result.ok
                   /\ last.result.error = "Token expired"

\* refresh_access_token returned a token only for a signed, unexpired refresh
\* token, and the token is a new access token of the embedded user.
RefreshOnlyForRefreshToken ==
    last.result.ok
        => /\ last.presented.signed
           /\ last.presented.type = "refresh"
           /\ last.t < last.presented.exp
           /\ last.result.token = generate_access_token(last.presented.user_id, last.t)

\* C23 as stated: refresh_access_token returns a new access token of the
\* embedded user only for a signed, unexpired refresh token; for a token of any
\* other type it fails with the invalid-token-type error and issues no token.
C23_RefreshNeedsRefreshToken ==
    last.op = "refresh_access_token"
        => /\ RefreshOnlyForRefreshToken
           /\ last.presented.type # "refresh"
                => /\ ~last.result.ok
                   /\ last.result.token = NoToken
                   /\ last.result.error = <<"Failed to refresh token", "Invalid token type">>

\* C23, amended: as above, but the invalid-token-type error is the one raised
\* only for a token of another type that verify_token accepts; a token that
\* verify_token rejects fails with the error of verify_token, whatever its type.
C23_RefreshTypeAfterVerify ==
    last.op = "refresh_access_token"
        => /\ RefreshOnlyForRefreshToken
           /\ last.presented.type # "refresh"
                => /\ ~last.result.ok
                   /\ last.result.token = NoToken
                   /\ last.verified
                        => last.result.error
                            = <<"Failed to refresh token", "Invalid token type">>
                   /\ ~last.verified
                        => last.result.error
                            = <<"Failed to refresh token",
                                verify_token(last.presented, last.t).error>>

\* An access token that verifies, refused for its type.
C23_Witness ==
    /\ last.op = "refresh_access_token"
    /\ last.presented.type = "access"
    /\ last.verified
    /\ ~last.result.ok

\* ------------------------------------------ ws_auth alone (SpecAuth)
\* No token, the access tokens issued at time 0, one with a signature that does
\* not verify, and a signed token whose payload has no user_id.
AuthTokens ==
    PresentedTokens
        \cup {[generate_access_token("alice", 0) EXCEPT !.signed = FALSE],
              generate_access_token("", 0),
              generate_refresh_token("alice", 0)}

\* WebSocketAuth.authenticate_connection; the fresh uuid4 is the next number
AuthenticateConnection(token) ==
    /\ next_id < MaxChannels
    /\ LET session_id == next_id + 1
           auth == authenticate_connection(WsState, token, session_id, now)
       IN  /\ SetWsState(auth.w)
           /\ next_id' = IF auth.ok THEN session_id ELSE next_id
           /\ last' = [op |-> "authenticate_connection", token |-> token, t |-> now,
                       ok |-> auth.ok, code |-> auth.code, user_id |-> auth.user_id,
                       session_id |-> session_id,
                       before |-> [active_sessions |-> active_sessions,
                                   connection_count |-> connection_count]]
    /\ UNCHANGED <<now, ticks, limiterSide, endpointVars, max_connections_per_user, channels, tasks, call>>

\* WebSocketAuth.close_session
CloseSession(session_id) ==
    /\ session_id \in DOMAIN active_sessions
    /\ SetWsState(close_session(WsState, session_id))
    /\ last' = [op |-> "step"]
    /\ UNCHANGED <<now, ticks, limiterSide, endpointVars, max_connections_per_user, next_id, channels,
                   tasks, call>>

\* The clock comes within five hours of the expiry of the tokens issued at
\* time 0, or passes it.
AuthTickSteps == {19 * 3600 + 1, JWT_EXPIRATION_HOURS * 3600}

AuthTick(d) == ticks < MaxWsTicks /\ Tick(d)

\* ws_auth = WebSocketAuth(), on a host at some offset from UTC
InitAuth ==
    /\ tier_buckets = default_limits
    /\ used = [requests |-> 0, admin |-> 0]
    /\ now = 0
    /\ ticks = 0
    /\ redis_ok = FALSE
    /\ store = [k \in BucketKeys |-> EmptyEntry]
    /\ bucket = ip_limit
    /\ calls = [i \in Identifiers |-> 0]
    /\ run = [i \in Identifiers |-> 0]
    /\ RaceIdle
    /\ max_connections_per_user = DefaultMaxConnections
    /\ next_id = 0
    /\ connections = EmptyMap
    /\ user_sessions = EmptyMap
    /\ session_user_map = EmptyMap
    /\ active_sessions = EmptyMap
    /\ connection_count = EmptyMap
    /\ channels = EmptyMap
    /\ tasks = {}
    /\ call = NoCall
    /\ active_connections = EmptyMap
    /\ endpoints = EmptyMap
    /\ utc_offset \in UtcOffsets
    /\ issued = NoToken
    /\ last = [op |-> "init"]

NextAuth ==
    \/ \E token \in AuthTokens : AuthenticateConnection(token)
    \/ \E session_id \in 1..MaxChannels : CloseSession(session_id)
    \/ \E d \in AuthTickSteps : AuthTick(d)
    \/ CleanupStaleSessions

SpecAuth == InitAuth /\ [][NextAuth]_vars

\* The token is present, signed, unexpired and names a user.
TokenIsGood(token, t) == token.signed /\ t < token.exp /\ token.user_id # ""

\* The sessions ws_auth holds for a user
SessionsOf(user_id) ==
    {session_id \in DOMAIN active_sessions : active_sessions[session_id].user_id = user_id}

\* C36: within ws_auth alone, after any sequence of authenticate_connection,
\* close_session and cleanup_stale_sessions calls, connection_count[u] (0 when
\* absent) is for every user u the number of entries of active_sessions whose
\* user is u; the counter is never negative, and the clamp at 0 of the decrement
\* is never what keeps it so.
C36_CounterMatchesSessions ==
    /\ \A u \in WsUsers \cup DOMAIN connection_count :
            get_user_connection_count(connection_count, u) = Cardinality(SessionsOf(u))
    /\ \A u \in DOMAIN connection_count : connection_count[u] >= 0
    /\ \A session_id \in DOMAIN active_sessions :
            LET u == active_sessions[session_id].user_id
            IN  u \in DOMAIN connection_count /\ connection_count[u] - 1 >= 0

\* After a sweep that closed a stale session, a user still has a session and
\* another user, whose sessions are all closed, has a counter back at 0.
C36_Witness ==
    /\ used.admin > 0
    /\ ticks > 0
    /\ Cardinality(DOMAIN active_sessions) < next_id
    /\ \E u \in DOMAIN connection_count :
            connection_count[u] = 0 /\ SessionsOf(u) = {}
    /\ \E u \in DOMAIN connection_count :
            connection_count[u] >= 1 /\ Cardinality(SessionsOf(u)) = connection_count[u]

\* C38: only access tokens open a WebSocket session: authenticate_connection
\* creates a session only when the presented token has type "access"; a validly
\* signed, unexpired refresh token presented as the connection token is
\* rejected.
C38_OnlyAccessTokensConnect ==
    last.op = "authenticate_connection"
        => /\ last.ok => last.token.type = "access"
           /\ active_sessions # last.before.active_sessions => last.token.type = "access"
           /\ (last.token.type = "refresh" /\ TokenIsGood(last.token, last.t)) => ~last.ok

\* C24: authenticate_connection succeeds only for a token that is present,
\* valid, unexpired and names a user, and fails for every other token; when it
\* succeeds it adds one session under a fresh id, bound to that user, and adds
\* one to that user's counter only; when it fails it raises with the
\* policy-violation code and leaves active_sessions and every counter as they
\* were.
C24_AuthenticateTwoOutcomes ==
    last.op = "authenticate_connection"
        => /\ last.ok => TokenIsGood(last.token, last.t)
           /\ last.ok
                => /\ last.session_id \notin DOMAIN last.before.active_sessions
                   /\ DOMAIN active_sessions
                        = DOMAIN last.before.active_sessions \cup {last.session_id}
                   /\ active_sessions[last.session_id].user_id = last.token.user_id
                   /\ \A sid \in DOMAIN last.before.active_sessions :
                        active_sessions[sid] = last.before.active_sessions[sid]
                   /\ Get(connection_count, last.token.user_id, 0)
                        = Get(last.before.connection_count, last.token.user_id, 0) + 1
                   /\ \A u \in WsUsers \ {last.token.user_id} :
                        Get(connection_count, u, 0) = Get(last.before.connection_count, u, 0)
           /\ ~last.ok
                => /\ last.code = 1008
                   /\ active_sessions = last.before.active_sessions
                   /\ connection_count = last.before.connection_count

\* A signed token without user_id refused while another session is open.
C24_Witness ==
    /\ last.op = "authenticate_connection"
    /\ ~last.ok
    /\ last.token.signed
    /\ last.token.user_id = ""
    /\ active_sessions # EmptyMap

\* ------------------------------------------- broadcasts (SpecBroadcast)
\* broadcast does not look at users: one user's valid token opens every session
ValidTokens == {generate_access_token("alice", 0)}

ExcludeChoices == {<<>>, <<1>>}

NextBroadcast ==
    \/ \E token \in ValidTokens : Connect(token)
    \/ \E session_id \in 1..MaxChannels : SendStart(session_id)
    \/ \E session_id \in 1..MaxChannels, type \in MessageTypes : SendFinish(session_id, type)
    \/ \E session_id \in 1..MaxChannels : DisconnectRegistered(session_id)
    \/ \E websocket \in 1..MaxChannels : PeerDown(websocket)
    \/ \E exclude_sessions \in ExcludeChoices : Broadcast(exclude_sessions)

SpecBroadcast == InitTyping /\ [][NextBroadcast]_vars

\* The latest broadcast call has returned.
BroadcastDone ==
    /\ call.n > 0
    /\ \A task \in tasks : task.message.type # "announcement"

\* The announcement of the latest call was sent on the websocket.
GotAnnouncement(websocket) == InList(channels[websocket].inbox, Announcement(call.n))

\* The sessions the call owed the message: registered at the call, not excluded.
Owed == {sid \in DOMAIN call.at_call : ~InList(call.exclude, sid)}

\* C13 as stated: when a broadcast in which a send failed has returned, every
\* session whose send failed is disconnected, and every other session that was registered at the call and
\* not excluded has been sent the message.
C13_FailureDoesNotAbort ==
    (BroadcastDone /\ call.failed # {})
        => /\ \A sid \in call.failed : sid \notin DOMAIN connections
           /\ \A sid \in Owed \ call.failed : GotAnnouncement(call.at_call[sid])

\* C13, amended: when a broadcast has returned, every session whose send failed
\* is disconnected and only those sends disconnected anything of the call; every
\* other session registered at the call and not excluded has been sent the
\* message, unless it was disconnected before its send ran; no excluded session
\* has been sent it.
C13_FailureAbsorbed ==
    BroadcastDone
        => /\ call.failed \subseteq Owed
           /\ \A sid \in call.failed :
                /\ sid \notin DOMAIN connections
                /\ ~GotAnnouncement(call.at_call[sid])
           /\ \A sid \in Owed \ call.failed :
                \/ GotAnnouncement(call.at_call[sid])
                \/ sid \notin DOMAIN connections
           /\ \A sid \in DOMAIN call.at_call \ Owed : ~GotAnnouncement(call.at_call[sid])

\* A broadcast that returned: one send failed and its session is gone, another
\* session was sent the message and is still registered.
C13_Witness ==
    /\ BroadcastDone
    /\ call.failed # {}
    /\ \E sid \in Owed \ call.failed :
            /\ GotAnnouncement(call.at_call[sid])
            /\ sid \in DOMAIN connections

\* --------------------------------- stuck peers and the event loop (SpecFanout)
NextFanout ==
    \/ \E token \in ValidTokens : Connect(token)
    \/ \E session_id \in 1..MaxChannels : SendStart(session_id)
    \/ \E session_id \in 1..MaxChannels, type \in MessageTypes : SendFinish(session_id, type)
    \/ \E websocket \in 1..MaxChannels : PeerDown(websocket)
    \/ \E websocket \in 1..MaxChannels : PeerStuck(websocket)
    \/ \E exclude_sessions \in ExcludeChoices : Broadcast(exclude_sessions)

\* A step of one of the send_to_session coroutines
LoopStep ==
    \/ \E session_id \in 1..MaxChannels : SendStart(session_id)
    \/ \E session_id \in 1..MaxChannels, type \in MessageTypes : SendFinish(session_id, type)

\* The event loop does not sit idle while a coroutine can go on.
LoopRuns == WF_vars(LoopStep)

SpecFanout == InitTyping /\ [][NextFanout]_vars /\ LoopRuns

\* A send of an announcement to the session has not finished.
AnnouncementPending(session_id) ==
    \E task \in tasks : task.session_id = session_id /\ task.message.type = "announcement"

StuckPeer(websocket) == websocket \in DOMAIN channels /\ Blocked(channels[websocket])

\* C32: the fan-out of broadcast is one independent operation per session: a
\* session whose send never completes, its peer being stuck, does not prevent
\* or delay the send to any other session that is not excluded; every send of
\* the broadcast to a session whose peer is not stuck finishes.
C32_StuckSendDelaysNoOther ==
    \A session_id \in 1..MaxChannels :
        (AnnouncementPending(session_id) /\ ~StuckPeer(session_id))
            ~> (~AnnouncementPending(session_id) \/ StuckPeer(session_id))

\* A broadcast whose send to one session is stuck, while another session of
\* the same broadcast has been sent the announcement.
C32_Witness ==
    /\ call.n > 0
    /\ \E stuck \in 1..MaxChannels :
            /\ StuckPeer(stuck)
            /\ \E task \in tasks : /\ task.session_id = stuck
                                   /\ task.phase = "sending"
                                   /\ task.message = Announcement(call.n)
            /\ \E other \in DOMAIN call.at_call \ {stuck} :
                    /\ other > stuck
                    /\ GotAnnouncement(call.at_call[other])

\* C33: no task stays blocked for ever on a dead or stuck channel: every
\* send_to_session call completes in the end, by delivering or by disconnecting
\* the session, so that broadcast and connect return even when a peer never
\* takes the bytes.
C33_NoTaskBlockedForever ==
    /\ \A session_id \in 1..MaxChannels :
            (\E task \in tasks : task.session_id = session_id)
                ~> ~(\E task \in tasks : task.session_id = session_id)
    /\ (call.n > 0) ~> BroadcastDone
    /\ \A websocket \in 1..MaxChannels :
            (websocket \in DOMAIN channels)
                ~> (websocket \in DOMAIN channels /\ channels[websocket].result # "pending")

\* ------------------------------------ the /ws/chat handler (SpecChat)
\* websocket_chat_endpoint after connect returned.  The result of a channel
\* tells where its handler is: "returned" at receive_text, "handling" inside
\* the call a message led to, "left" after the finally clause.

\* The handler read a typing message and awaits send_typing_indicator.
HandleTyping(session_id) ==
    /\ session_id \in DOMAIN channels
    /\ channels[session_id].result = "returned"
    /\ call.n < MaxBroadcasts
    /\ \A task \in tasks : task.message.type = "auth_success"
    /\ LET user_id == channels[session_id].user_id
           sender_sessions == Get(user_sessions, user_id, <<>>)
           w == update_session_activity(WsState, session_id, now)
       IN  /\ SetWsState(w)
           /\ tasks' = tasks \cup
                    {[session_id |-> sid, websocket |-> 0,
                      phase |-> "scheduled",
                      message |-> TypingIndicator(user_id, call.n + 1)] :
                        sid \in broadcast(connections, sender_sessions)}
           /\ call' = [n |-> call.n + 1, user_id |-> user_id, at_call |-> connections,
                       exclude |-> sender_sessions, failed |-> {},
                       index |-> 0, iterating |-> FALSE]
           /\ channels' = [channels EXCEPT ![session_id].result = "handling"]
           /\ last' = [op |-> "typing", session_id |-> session_id,
                       registered |-> session_id \in DOMAIN connections,
                       closed |-> channels[session_id].closed]
    /\ UNCHANGED <<now, ticks, limiterSide, endpointVars, max_connections_per_user, next_id>>

\* gather returned: the handler is back at receive_text.
HandlerResume(session_id) ==
    /\ session_id \in DOMAIN channels
    /\ channels[session_id].result = "handling"
    /\ \A task \in tasks : task.message.type # "typing_indicator"
    /\ channels' = [channels EXCEPT ![session_id].result = "returned"]
    /\ last' = [op |-> "step"]
    /\ UNCHANGED <<now, ticks, limiterSide, endpointVars, max_connections_per_user, next_id,
                   registryVars, authVars, tasks, call>>

\* receive_text raises WebSocketDisconnect: break, and the finally clause
\* calls disconnect(session_id).
HandlerLeaves(session_id) ==
    /\ session_id \in DOMAIN channels
    /\ channels[session_id].result = "returned"
    /\ channels[session_id].peer = "down"
    /\ SetWsState(disconnect(WsState, session_id))
    /\ channels' = [channels EXCEPT ![session_id].result = "left"]
    /\ last' = [op |-> "step"]
    /\ UNCHANGED <<now, ticks, limiterSide, endpointVars, max_connections_per_user, next_id,
                   tasks, call>>

NextChat ==
    \/ \E token \in PresentedTokens : Connect(token)
    \/ \E session_id \in 1..MaxChannels : SendStart(session_id)
    \/ \E session_id \in 1..MaxChannels, type \in MessageTypes : SendFinish(session_id, type)
    \/ \E websocket \in 1..MaxChannels : PeerDown(websocket)
    \/ \E websocket \in 1..MaxChannels : PeerStuck(websocket)
    \/ \E session_id \in 1..MaxChannels : HandleTyping(session_id)
    \/ \E session_id \in 1..MaxChannels : HandlerResume(session_id)
    \/ \E session_id \in 1..MaxChannels : HandlerLeaves(session_id)

\* A step of a coroutine that can go on: a send, or a handler.
ChatLoopStep ==
    \/ LoopStep
    \/ \E session_id \in 1..MaxChannels : HandlerResume(session_id)
    \/ \E session_id \in 1..MaxChannels : HandlerLeaves(session_id)

SpecChat == InitTyping /\ [][NextChat]_vars /\ WF_vars(ChatLoopStep)

SessionDestroyed(session_id) ==
    /\ session_id \notin DOMAIN connections
    /\ \A u \in DOMAIN user_sessions : ~InList(user_sessions[u], session_id)
    /\ session_id \notin DOMAIN active_sessions

\* C34: every session registered through the /ws/chat endpoint is destroyed in
\* the end once its client has disconnected: the handler leaves its message
\* loop and disconnect(session_id) is called, so the session is in the end
\* absent from connections, user_sessions and ws_auth.active_sessions.
C34_DisconnectedSessionDestroyed ==
    \A session_id \in 1..MaxChannels :
        (/\ session_id \in DOMAIN connections
         /\ channels[session_id].peer = "down")
            ~> SessionDestroyed(session_id)

\* The handlers of /ws/chat next to the administrative route
\* DELETE /ws/sessions/{session_id}, which calls disconnect(session_id)
NextForced ==
    \/ \E token \in PresentedTokens : Connect(token)
    \/ \E session_id \in 1..MaxChannels : SendStart(session_id)
    \/ \E session_id \in 1..MaxChannels, type \in MessageTypes : SendFinish(session_id, type)
    \/ \E websocket \in 1..MaxChannels : PeerDown(websocket)
    \/ \E session_id \in 1..MaxChannels : HandleTyping(session_id)
    \/ \E session_id \in 1..MaxChannels : HandlerResume(session_id)
    \/ \E session_id \in 1..MaxChannels : HandlerLeaves(session_id)
    \/ \E session_id \in 1..MaxChannels : DisconnectRegistered(session_id)

SpecForced == InitTyping /\ [][NextForced]_vars

\* The disconnect of a registered session leaves its channel closed.
DisconnectClosesChannel ==
    (last.op = "disconnect" /\ last.was_registered)
        => channels[last.session_id].closed # <<>>

\* A typing message is acted on only for a channel whose session is registered
\* and which has not been closed.
TypingOnlyFromOpenSession ==
    last.op = "typing" => (last.registered /\ last.closed = <<>>)

\* C35: a connection goes through Connecting, Authenticating, Open, Closing,
\* Closed in this order: disconnect(session_id) of an open session, the forced
\* disconnect of the administrative route included, takes its channel to
\* Closed, and after it no message coming in on that channel has an effect: no
\* typing indicator from it is broadcast to the other sessions.
C35_DisconnectClosesForGood ==
    /\ DisconnectClosesChannel
    /\ TypingOnlyFromOpenSession

\* ------------------------------------- messages to a user (SpecSendToUser)
\* A connect of the user after the iterated list was emptied and dropped builds
\* a new list that the running loop does not see; connects come before the call.
ConnectBeforeCall(token) ==
    /\ ~call.iterating
    /\ Connect(token)

NextSendToUser ==
    \/ \E token \in ValidTokens : ConnectBeforeCall(token)
    \/ \E session_id \in 1..MaxChannels, type \in MessageTypes : SendFinish(session_id, type)
    \/ \E session_id \in 1..MaxChannels : DisconnectRegistered(session_id)
    \/ \E websocket \in 1..MaxChannels : PeerDown(websocket)
    \/ \E user_id \in WsUsers : SendToUser(user_id)
    \/ SendToUserResume

SpecSendToUser == InitTyping /\ [][NextSendToUser]_vars

\* The latest send_to_user call has returned.
SendToUserDone ==
    /\ call.n > 0
    /\ ~call.iterating
    /\ \A task \in tasks : task.message.type # "notification"

\* The message of the latest send_to_user call was sent on the websocket.
GotNotification(websocket) ==
    InList(channels[websocket].inbox, Notification(call.user_id, call.n))

\* C14: when send_to_user(u, msg) has returned, every session whose send failed
\* is disconnected, and every session of u that was registered at the call, is
\* still registered and did not fail has been sent the message.
C14_DeliversToEverySession ==
    SendToUserDone
        => /\ \A sid \in call.failed : sid \notin DOMAIN connections
           /\ \A sid \in DOMAIN call.at_call \cap DOMAIN connections :
                (/\ channels[call.at_call[sid]].user_id = call.user_id
                 /\ sid \notin call.failed)
                    => GotNotification(call.at_call[sid])

\* A send_to_user that returned after one send failed, with another session of
\* the user still registered.
C14_Witness ==
    /\ SendToUserDone
    /\ call.failed # {}
    /\ \E sid \in DOMAIN call.at_call \cap DOMAIN connections :
            channels[call.at_call[sid]].user_id = call.user_id

\* ----------------------------------- the store is unavailable (SpecOutage)
\* The requests of one free-tier user from one address.
OutageRequests == {[user_id |-> "alice", ip |-> "10.0.0.1", tier |-> ""]}

\* A path is the sequence of the pieces of request.url.path; a prefix of the
\* sequence is a prefix of the string.
exempt_paths ==
    {<<"/health">>, <<"/docs">>, <<"/redoc">>, <<"/openapi.json">>, <<"/favicon.ico">>}

\* str.startswith
startswith(path, prefix) ==
    /\ Len(prefix) <= Len(path)
    /\ SubSeq(path, 1, Len(prefix)) = prefix

\* A plausible slip: only the listed paths themselves are exempt.
_is_exempt_exact(path) == path \in exempt_paths

\* RateLimitMiddleware._is_exempt
_is_exempt(path) == \E exempt_path \in exempt_paths : startswith(path, exempt_path)

\* The paths requested: /health, /health/live, /docs, /api/chat, /api/health
Paths ==
    {<<"/health">>, <<"/health", "/live">>, <<"/docs">>, <<"/api", "/chat">>,
     <<"/api", "/health">>}

\* RateLimitMiddleware.dispatch: an exempt path goes to the downstream handler
\* at once; otherwise the check, then the handler unless the check rejected.
\* admitted counts the requests the check let through to the handler.
Dispatch(req, path) ==
    /\ calls[get_client_identifier(req)] < MaxCalls
    /\ calls' = [calls EXCEPT ![get_client_identifier(req)] = @ + 1]
    /\ IF _is_exempt(path)
       THEN /\ store' = store
            /\ admitted' = admitted
            /\ last' = [op |-> "dispatch", t |-> now, path |-> path, checked |-> FALSE,
                        outcome |-> "exempt", identifier |-> get_client_identifier(req),
                        response |-> [status_code |-> 200, retry_after |-> <<>>,
                                      handled |-> TRUE],
                        before |-> store]
       ELSE LET r == check_rate_limit(tier_buckets, store, redis_ok, req, now)
                response == dispatch(r)
            IN  /\ store' = r.store
                /\ admitted' = IF response.handled THEN admitted + 1 ELSE admitted
                /\ last' = [op |-> "dispatch", t |-> now, path |-> path,
                            checked |-> TRUE, outcome |-> r.outcome,
                            identifier |-> r.identifier, response |-> response,
                            before |-> store]
    /\ UNCHANGED <<wsVars, tokenVars, now, ticks, redis_ok, bucket, run, limiterVars, procs>>

\* redis_client is never initialised by the program: sync_client is None and
\* every command fails inside RedisClient.  The tier buckets are those of
\* __init__, or those after the route bound free to 3 requests, 1 per second.
InitOutage ==
    /\ tier_buckets \in {default_limits, update_tier_limits(default_limits, "free", 3, 3)}
    /\ used = [requests |-> 0, admin |-> 0]
    /\ now = 0
    /\ ticks = 0
    /\ redis_ok = FALSE
    /\ store = [k \in BucketKeys |-> EmptyEntry]
    /\ bucket = ip_limit
    /\ calls = [i \in Identifiers |-> 0]
    /\ run = [i \in Identifiers |-> 0]
    /\ RaceIdle
    /\ WsIdle(DefaultMaxConnections)
    /\ last = [op |-> "init"]

NextOutage ==
    \/ initialize_sync
    \/ \E d \in TickSteps : Tick(d)
    \/ \E req \in OutageRequests, path \in Paths : Dispatch(req, path)

SpecOutage == InitOutage /\ [][NextOutage]_vars

\* C18: while the store is unavailable and no time has elapsed, the requests of
\* one identifier that reached the handler number at most the capacity of its
\* bucket; beyond it a request is rejected or its failure is surfaced.
C18_OutageIsBounded ==
    (~redis_ok /\ ticks = 0) => admitted <= tier_buckets.free.capacity

\* A request handled while the store was unavailable.
C18_Witness ==
    /\ ~redis_ok
    /\ ticks = 0
    /\ last.op = "dispatch"
    /\ last.checked
    /\ last.response.handled

\* C22: a request whose path starts with a prefix of the exempt list is not
\* checked: dispatch changes no stored bucket state, takes no token of the IP
\* bucket or of a tier bucket, and forwards it to the downstream handler.
C22_ExemptBypass ==
    (/\ last.op = "dispatch"
     /\ \E prefix \in exempt_paths :
            /\ Len(prefix) <= Len(last.path)
            /\ \A i \in 1..Len(prefix) : last.path[i] = prefix[i])
        => /\ ~last.checked
           /\ store = last.before
           /\ last.response.handled
           /\ last.response.status_code # 429

\* A request under an exempt prefix, not itself in the list, with Redis
\* connected and the buckets of its sender in use.
C22_Witness ==
    /\ last.op = "dispatch"
    /\ last.path = <<"/health", "/live">>
    /\ redis_ok
    /\ store[_get_bucket_key(last.identifier)].present # {}


\* ------------------------------ the /ws/{user_id} endpoint (SpecEndpoint)
\* main.py keeps its own ConnectionManager, one websocket per user id.
MaxSockets == 2
MaxReceives == 2

\* What jwt.decode has to go on: is there a token, does its signature check
\* under SECRET_KEY, its "sub" and its "exp".
NoJwt == [present |-> FALSE, signed |-> FALSE, sub |-> "", exp |-> 0]

Jwt(sub, exp) == [present |-> TRUE, signed |-> TRUE, sub |-> sub, exp |-> exp]

ForgedJwt(sub) == [present |-> TRUE, signed |-> FALSE, sub |-> sub, exp |-> 3600]

EndpointTokens ==
    {NoJwt, Jwt("alice", 3600), Jwt("bob", 3600), Jwt("alice", 0), ForgedJwt("alice")}

None == ""

verify_websocket_token(token, t) ==
    IF token.signed /\ token.exp > t THEN token.sub ELSE None

\* manager.send_message: to whatever websocket is registered under user_id
send_message(conns, user_id, message) ==
    IF user_id \in DOMAIN conns THEN {<<conns[user_id], message>>} ELSE {}

\* manager.broadcast: to every registered websocket
manager_broadcast(conns, message) == {<<conns[u], message>> : u \in DOMAIN conns}

\* manager.disconnect
manager_disconnect(conns, user_id) ==
    IF user_id \in DOMAIN conns THEN Del(conns, user_id) ELSE conns

\* The frames of `sent` reach their websockets.
Deliver(eps, sent) ==
    [ws \in DOMAIN eps |->
        [eps[ws] EXCEPT !.inbox = @ \cup {m[2] : m \in {x \in sent : x[1] = ws}}]]

\* manager.connect calls websocket.accept() on a websocket the endpoint has
\* accepted already.  Starlette refuses a second websocket.accept with a
\* RuntimeError; a server that lets it pass is the other outcome.
SecondAccept == {"RuntimeError", "accepted"}

NewEndpoint(user_id) ==
    [user_id |-> user_id, authenticated |-> FALSE, authenticated_user_id |-> None,
     state |-> "open", code |-> 0, received |-> 0, inbox |-> {}]

\* The step both ways of authenticating share once the token verified to
\* user_id: authenticated = True, manager.connect, manager.send_message.
authenticate_endpoint(conns, eps, websocket, second_accept) ==
    LET h == [eps[websocket] EXCEPT !.authenticated = TRUE,
                                    !.authenticated_user_id = eps[websocket].user_id]
    IN  IF second_accept = "RuntimeError"
        THEN [conns |-> conns,
              eps |-> [eps EXCEPT ![websocket] = [h EXCEPT !.state = "crashed"]],
              sent |-> {}]
        ELSE LET registered == Put(conns, h.user_id, websocket)
                 sent == send_message(registered, h.user_id, "auth_success")
             IN  [conns |-> registered,
                  eps |-> Deliver([eps EXCEPT ![websocket] = h], sent),
                  sent |-> sent]

\* websocket_endpoint up to its first receive_json
WebsocketEndpoint(user_id, token, second_accept) ==
    /\ Cardinality(DOMAIN endpoints) < MaxSockets
    /\ LET websocket == Cardinality(DOMAIN endpoints) + 1
           authenticated_user_id ==
               IF token.present THEN verify_websocket_token(token, now) ELSE None
           matched == token.present /\ authenticated_user_id = user_id
           accepted == Put(endpoints, websocket,
                           [NewEndpoint(user_id) EXCEPT
                                !.authenticated_user_id = authenticated_user_id])
           r == IF matched
                THEN authenticate_endpoint(active_connections, accepted, websocket,
                                           second_accept)
                ELSE [conns |-> active_connections, eps |-> accepted, sent |-> {}]
       IN  /\ active_connections' = r.conns
           /\ endpoints' = r.eps
           /\ last' = [op |-> "websocket_endpoint", websocket |-> websocket,
                       user_id |-> user_id, type |-> "auth", via |-> "query",
                       matched |-> matched, was_authenticated |-> FALSE,
                       before |-> active_connections, sent |-> r.sent]
    /\ UNCHANGED <<now, ticks, limiterSide, max_connections_per_user, next_id,
                   registryVars, authVars, channels, tasks, call>>

EndpointMessageTypes == {"auth", "ping", "chat", "typing"}

\* One turn of the receive loop.  The chunks of a chat reply, which the code
\* sends with a sleep between them, go out in one step.
receive_json(conns, eps, websocket, type, token, second_accept, t) ==
    LET h == eps[websocket]
        user_id == h.user_id
        counted == [eps EXCEPT ![websocket].received = @ + 1]
    IN  IF type = "auth" /\ ~h.authenticated
        THEN LET authenticated_user_id ==
                     IF token.present THEN verify_websocket_token(token, t) ELSE None
                 verified == [counted EXCEPT ![websocket].authenticated_user_id =
                                                 authenticated_user_id]
             IN  IF token.present /\ authenticated_user_id = user_id
                 THEN authenticate_endpoint(conns, verified, websocket, second_accept)
                 ELSE LET sent == send_message(conns, user_id, "auth_failed")
                      IN  [conns |-> conns,
                           eps |-> Deliver([verified EXCEPT ![websocket].state = "closed",
                                                            ![websocket].code = 4001],
                                           sent),
                           sent |-> sent]
        ELSE IF ~h.authenticated
        THEN LET sent == {<<websocket, "error">>}
             IN  [conns |-> conns, eps |-> Deliver(counted, sent), sent |-> sent]
        ELSE LET sent ==
                     CASE type = "ping" -> send_message(conns, user_id, "pong")
                       [] type = "chat" -> send_message(conns, user_id, "chat_chunk")
                                           \cup send_message(conns, user_id, "chat_complete")
                       [] type = "typing" -> manager_broadcast(conns, "user_typing")
                       [] OTHER -> {}
             IN  [conns |-> conns, eps |-> Deliver(counted, sent), sent |-> sent]

Receive(websocket, type, token, second_accept) ==
    /\ websocket \in DOMAIN endpoints
    /\ endpoints[websocket].state = "open"
    /\ endpoints[websocket].received < MaxReceives
    /\ type # "auth" => token = NoJwt
    /\ LET h == endpoints[websocket]
           r == receive_json(active_connections, endpoints, websocket, type, token,
                             second_accept, now)
       IN  /\ active_connections' = r.conns
           /\ endpoints' = r.eps
           /\ last' = [op |-> "receive_json", websocket |-> websocket,
                       user_id |-> h.user_id, type |-> type, via |-> "message",
                       matched |-> /\ type = "auth"
                                   /\ token.present
                                   /\ verify_websocket_token(token, now) = h.user_id,
                       was_authenticated |-> h.authenticated,
                       before |-> active_connections, sent |-> r.sent]
    /\ UNCHANGED <<now, ticks, limiterSide, max_connections_per_user, next_id,
                   registryVars, authVars, channels, tasks, call>>

\* receive_json raises WebSocketDisconnect: the except branch
ClientGone(websocket) ==
    /\ websocket \in DOMAIN endpoints
    /\ endpoints[websocket].state = "open"
    /\ LET h == endpoints[websocket]
           conns == manager_disconnect(active_connections, h.user_id)
           sent == manager_broadcast(conns, "user_disconnected")
       IN  /\ active_connections' = conns
           /\ endpoints' = Deliver([endpoints EXCEPT ![websocket].state = "gone"], sent)
           /\ last' = [op |-> "disconnect", websocket |-> websocket,
                       user_id |-> h.user_id, type |-> "", via |-> "",
                       matched |-> FALSE, was_authenticated |-> h.authenticated,
                       before |-> active_connections, sent |-> sent]
    /\ UNCHANGED <<now, ticks, limiterSide, max_connections_per_user, next_id,
                   registryVars, authVars, channels, tasks, call>>

NextEndpoint ==
    \/ \E user_id \in UserIds, token \in EndpointTokens, second_accept \in SecondAccept :
            WebsocketEndpoint(user_id, token, second_accept)
    \/ \E websocket \in 1..MaxSockets, type \in EndpointMessageTypes,
          token \in EndpointTokens, second_accept \in SecondAccept :
            Receive(websocket, type, token, second_accept)
    \/ \E websocket \in 1..MaxSockets : ClientGone(websocket)

SpecEndpoint == InitTyping /\ [][NextEndpoint]_vars

\* A websocket is registered only under its own user id, and only after a
\* token it presented verified to that user id.
RegisteredOnlyAfterToken ==
    \A u \in DOMAIN active_connections :
        LET h == endpoints[active_connections[u]]
        IN  h.user_id = u /\ h.authenticated_user_id = u

\* A token that verifies to the path's user id gets the websocket registered
\* and answered with auth_success.
ValidTokenGetsAuthSuccess ==
    (last.op \in {"websocket_endpoint", "receive_json"}
        /\ last.type = "auth" /\ ~last.was_authenticated /\ last.matched)
    => /\ last.user_id \in DOMAIN active_connections
       /\ active_connections[last.user_id] = last.websocket
       /\ <<last.websocket, "auth_success">> \in last.sent

\* An auth message whose token is missing or does not verify to the user id
\* closes the websocket with 4001.
BadAuthMessageCloses4001 ==
    (last.op = "receive_json" /\ last.type = "auth"
        /\ ~last.was_authenticated /\ ~last.matched)
    => /\ endpoints[last.websocket].state = "closed"
       /\ endpoints[last.websocket].code = 4001
       /\ active_connections = last.before

\* Before it is authenticated, a websocket's ping, chat or typing message gets
\* an error frame and nothing else.
UnauthenticatedNotActedOn ==
    (last.op = "receive_json" /\ last.type \in {"ping", "chat", "typing"}
        /\ ~last.was_authenticated)
    => /\ last.sent = {<<last.websocket, "error">>}
       /\ active_connections = last.before

\* C26: on /ws/{user_id} a channel is registered only after a token it
\* presented, in the query or in a first auth message, verified to that user
\* id, and is then answered with auth_success; an auth message with a missing
\* or non-matching token closes the channel with 4001; nothing is done for a
\* ping, chat or typing message of a channel that is not authenticated.
C26_AuthBeforeUse ==
    /\ RegisteredOnlyAfterToken
    /\ ValidTokenGetsAuthSuccess
    /\ BadAuthMessageCloses4001
    /\ UnauthenticatedNotActedOn

====
